---- MODULE Spec2Model ----
(***************************************************************************)
(* PyFluff: the DLC upload session of DLCManager (src/pyfluff/dlc.py).     *)
(*                                                                         *)
(* upload_dlc is an asyncio coroutine.  Between two awaits it runs without *)
(* interruption, so the model has one action per await: the action is the  *)
(* completion of that await (it returns or raises) followed by all the     *)
(* code up to the next await.  pc names the await the coroutine is         *)
(* suspended at, by its line in dlc.py ("L114" is the await of line 114).  *)
(* While the coroutine is suspended the transport may deliver a            *)
(* notification to every callback of _gp_callbacks (Notify).               *)
(*                                                                         *)
(* Time is counted in seconds by elapsed, and only while the coroutine is  *)
(* blocked in one of its two asyncio.wait_for calls: a wait whose latch is *)
(* set resumes before any more time passes, and a wait whose bound has     *)
(* passed with the latch unset raises TimeoutError.                        *)
(***************************************************************************)
EXTENDS Integers, Sequences, FiniteSets, TLC

(***************************************************************************)
(* Bounds of the model.                                                    *)
(***************************************************************************)
MaxFileSize == 41
MaxTimeout == 2
MaxNotify == 3

(***************************************************************************)
(* Program constants.                                                      *)
(***************************************************************************)
FILE_CHUNK_SIZE == 20
READY_TIMEOUT == 10
PROGRESS_EVERY == 50
DEFAULT_SLOT == 2

READY_TO_RECEIVE == 2
FILE_TRANSFER_TIMEOUT == 3
FILE_RECEIVED_OK == 5
FILE_RECEIVED_ERROR == 6

VARIABLES
    \* DLCManager fields
    transfer_ready,      \* self._transfer_ready.is_set()
    transfer_complete,   \* self._transfer_complete.is_set()
    transfer_error,      \* self._transfer_error ("None" or the message)
    progress_callback,   \* self._progress_callback is not None
    \* FurbyConnect (the transport)
    gp_callbacks,        \* furby._gp_callbacks
    gp_writes,           \* commands written by furby._write_gp in this call
    file_writes,         \* chunks written by furby._write_file in this call
    nordic_calls,        \* arguments of furby.enable_nordic_packet_ack in this call
    sink_calls,          \* invocations of the progress callback in this call
    \* the upload_dlc coroutine
    pc, file_size, timeout, enable_nordic_ack, offset, chunk_count,
    elapsed,             \* seconds spent in the current wait (or in the last one, once it is over)
    result,              \* "none", "running", "ok" or the text of the exception raised
    \* history of the current invocation
    seen,                \* <<status code, stage>> of the status frames handled since the reset
    trail,               \* the session phases passed through, in order (Complete and
                         \* Failed are the normal return and the raise of the call)
    \* a direct invocation of DLCManager._file_transfer_callback
    frame,               \* the frame it was last invoked with
    raised,              \* the exception that invocation raised ("None": it returned)
    \* FurbyProtocol (the command encoders and parse_response)
    request,             \* the encoder last called and its arguments
    encoded,             \* the bytes it returned
    decoded,             \* what parse_response last returned, or the exception it raised
    classified,          \* what is_furby_message and get_furby_message_type last returned
    furbies,             \* FurbyCache.config.furbies: the entries, in the order of insertion
    clock,               \* time.time(), in ticks
    cache_ret,           \* the last call of the cache and what it returned
    calls,               \* two invocations of upload_dlc on one manager, when they overlap
    \* the tool server (mcp_server)
    furby_connected,     \* _furby.connected
    tool_call,           \* the tool last called: its arguments, the device operation
                         \* it awaits or awaited, and what it returned
    \* the flash_and_activate coroutine
    flash_pc,            \* the await it is suspended at ("F259": inside upload_dlc)
    delete_first, flash_cb,   \* its arguments (flash_cb: a progress callback is given)
    path_exists, flash_size,  \* the file at dlc_path
    flash_sink,          \* the messages of its own progress calls
    cause,               \* the exception caught at line 279 ("None": none so far)
    failed_at,           \* the await that raised it
    flash_result         \* "none", "running", "ok" or the text of the exception raised

vars == <<transfer_ready, transfer_complete, transfer_error, progress_callback,
          gp_callbacks, gp_writes, file_writes, nordic_calls, sink_calls,
          pc, file_size, timeout, enable_nordic_ack, offset, chunk_count, elapsed,
          result, seen, trail, frame, raised, request, encoded, decoded, classified,
          furbies, clock, cache_ret, calls, furby_connected, tool_call,
          flash_pc, delete_first, flash_cb, path_exists, flash_size, flash_sink,
          cause, failed_at, flash_result>>

\* what an upload leaves alone
handler_vars == <<frame, raised>>
protocol_vars == <<request, encoded, decoded, classified>>
flash_inputs == <<delete_first, flash_cb, path_exists, flash_size>>
flash_vars == <<flash_pc, flash_inputs, flash_sink, cause, failed_at, flash_result>>
cache_vars == <<furbies, clock, cache_ret>>
overlap_vars == <<calls>>
mcp_vars == <<furby_connected, tool_call>>
elsewhere == <<overlap_vars, mcp_vars>>
others == <<handler_vars, protocol_vars, flash_vars, cache_vars, elsewhere>>

\* what the handler and the encoders leave alone
session == <<progress_callback, gp_callbacks, gp_writes, file_writes, nordic_calls,
             sink_calls, pc, file_size, timeout, enable_nordic_ack, offset, chunk_count,
             elapsed, result, seen, trail>>

latches == <<transfer_ready, transfer_complete, transfer_error>>
inputs == <<file_size, timeout, enable_nordic_ack>>

Min(a, b) == IF a < b THEN a ELSE b

Handler == "_file_transfer_callback"

ErrNotFound == "DLC file not found"
ErrReady == "Furby did not respond to DLC upload announcement"
ErrConfirm == "Timeout waiting for upload confirmation"
ErrFailed == "File transfer failed"
ErrTimeout == "File transfer timeout"
ErrWrite == "transport write raised"
ErrSink == "progress callback raised"

(***************************************************************************)
(* The frames the transport delivers: the four handled status frames, a    *)
(* frame with an unknown status code, a frame that is too short and a      *)
(* frame of another device-event channel.                                  *)
(***************************************************************************)
Frames == { <<36, READY_TO_RECEIVE>>, <<36, FILE_RECEIVED_OK>>,
            <<36, FILE_RECEIVED_ERROR>>, <<36, FILE_TRANSFER_TIMEOUT>>,
            <<36, 255>>, <<36>>, <<35, 2>> }

HandledCodes == {READY_TO_RECEIVE, FILE_RECEIVED_OK, FILE_RECEIVED_ERROR, FILE_TRANSFER_TIMEOUT}

IsStatusFrame(data) == Len(data) >= 2 /\ data[1] = 36 /\ data[2] \in HandledCodes

\* mutant of file_transfer_callback: READY_TO_RECEIVE sets both latches
file_transfer_callback_ReadyCompletes(data, s) ==
    IF Len(data) < 2 \/ data[1] # 36 THEN s
    ELSE IF data[2] = READY_TO_RECEIVE THEN [s EXCEPT !.ready = TRUE, !.complete = TRUE]
    ELSE IF data[2] = FILE_RECEIVED_OK THEN [s EXCEPT !.complete = TRUE]
    ELSE IF data[2] = FILE_RECEIVED_ERROR
         THEN [s EXCEPT !.error = ErrFailed, !.complete = TRUE]
    ELSE IF data[2] = FILE_TRANSFER_TIMEOUT
         THEN [s EXCEPT !.error = ErrTimeout, !.complete = TRUE]
    ELSE s

\* mutant of file_transfer_callback: FILE_RECEIVED_ERROR records the cause and
\* does not set the complete latch
file_transfer_callback_ErrorKeepsWaiting(data, s) ==
    IF Len(data) < 2 \/ data[1] # 36 THEN s
    ELSE IF data[2] = READY_TO_RECEIVE THEN [s EXCEPT !.ready = TRUE]
    ELSE IF data[2] = FILE_RECEIVED_OK THEN [s EXCEPT !.complete = TRUE]
    ELSE IF data[2] = FILE_RECEIVED_ERROR THEN [s EXCEPT !.error = ErrFailed]
    ELSE IF data[2] = FILE_TRANSFER_TIMEOUT
         THEN [s EXCEPT !.error = ErrTimeout, !.complete = TRUE]
    ELSE s

\* mutant of file_transfer_callback: FILE_RECEIVED_OK clears the recorded error
file_transfer_callback_OkClearsError(data, s) ==
    IF Len(data) < 2 \/ data[1] # 36 THEN s
    ELSE IF data[2] = READY_TO_RECEIVE THEN [s EXCEPT !.ready = TRUE]
    ELSE IF data[2] = FILE_RECEIVED_OK THEN [s EXCEPT !.error = "None", !.complete = TRUE]
    ELSE IF data[2] = FILE_RECEIVED_ERROR
         THEN [s EXCEPT !.error = ErrFailed, !.complete = TRUE]
    ELSE IF data[2] = FILE_TRANSFER_TIMEOUT
         THEN [s EXCEPT !.error = ErrTimeout, !.complete = TRUE]
    ELSE s

\* mutant of file_transfer_callback: FILE_TRANSFER_TIMEOUT records the cause and
\* does not set the complete latch
file_transfer_callback_TimeoutKeepsWaiting(data, s) ==
    IF Len(data) < 2 \/ data[1] # 36 THEN s
    ELSE IF data[2] = READY_TO_RECEIVE THEN [s EXCEPT !.ready = TRUE]
    ELSE IF data[2] = FILE_RECEIVED_OK THEN [s EXCEPT !.complete = TRUE]
    ELSE IF data[2] = FILE_RECEIVED_ERROR
         THEN [s EXCEPT !.error = ErrFailed, !.complete = TRUE]
    ELSE IF data[2] = FILE_TRANSFER_TIMEOUT THEN [s EXCEPT !.error = ErrTimeout]
    ELSE s

\* mutant of file_transfer_callback: the first byte of the frame is not looked at
file_transfer_callback_NoPrefixCheck(data, s) ==
    IF Len(data) < 2 THEN s
    ELSE IF data[2] = READY_TO_RECEIVE THEN [s EXCEPT !.ready = TRUE]
    ELSE IF data[2] = FILE_RECEIVED_OK THEN [s EXCEPT !.complete = TRUE]
    ELSE IF data[2] = FILE_RECEIVED_ERROR
         THEN [s EXCEPT !.error = ErrFailed, !.complete = TRUE]
    ELSE IF data[2] = FILE_TRANSFER_TIMEOUT
         THEN [s EXCEPT !.error = ErrTimeout, !.complete = TRUE]
    ELSE s

(***************************************************************************)
(* DLCManager._file_transfer_callback: the latches after handling data,    *)
(* given the latches s before it.                                          *)
(***************************************************************************)
file_transfer_callback(data, s) ==
    IF Len(data) < 2 \/ data[1] # 36 THEN s
    ELSE IF data[2] = READY_TO_RECEIVE THEN [s EXCEPT !.ready = TRUE]
    ELSE IF data[2] = FILE_RECEIVED_OK THEN [s EXCEPT !.complete = TRUE]
    ELSE IF data[2] = FILE_RECEIVED_ERROR
         THEN [s EXCEPT !.error = ErrFailed, !.complete = TRUE]
    ELSE IF data[2] = FILE_TRANSFER_TIMEOUT
         THEN [s EXCEPT !.error = ErrTimeout, !.complete = TRUE]
    ELSE s

(***************************************************************************)
(* The content of a file of n bytes, and Python's data[a:b].               *)
(***************************************************************************)
dlc_data(n) == [i \in 1..n |-> (7 * i) % 256]

Slice(data, a, b) == SubSeq(data, a + 1, Min(b, Len(data)))

\* mutant of Chunk: the slice ends one byte early
Chunk_ShortSlice(n, off) == Slice(dlc_data(n), off, off + FILE_CHUNK_SIZE - 1)

\* mutant of Chunk: every chunk is sliced from the start of the content
Chunk_FromStart(n, off) == Slice(dlc_data(n), 0, Min(FILE_CHUNK_SIZE, n - off))

\* line 138: chunk = dlc_data[offset : offset + FILE_CHUNK_SIZE]
Chunk(n, off) == Slice(dlc_data(n), off, off + FILE_CHUNK_SIZE)

\* mutant of NextOffset: offset += FILE_CHUNK_SIZE
NextOffset_FullChunk(off, chunk) == off + FILE_CHUNK_SIZE

\* line 140: offset += len(chunk)
NextOffset(off, chunk) == off + Len(chunk)

\* mutant of build_dlc_announce_command: the size is written low byte first
build_dlc_announce_command_LittleEndian(size, slot, name) ==
    <<80, 0, size % 256, (size \div 256) % 256, (size \div 65536) % 256, slot>>
        \o [i \in 1..12 |-> IF i <= Len(name) THEN name[i] ELSE 0]

\* mutant of build_dlc_announce_command: a long name is not truncated
build_dlc_announce_command_NoTruncate(size, slot, name) ==
    <<80, 0, (size \div 65536) % 256, (size \div 256) % 256, size % 256, slot>>
        \o name \o [i \in 1..(12 - Len(name)) |-> 0]

\* FurbyProtocol.build_dlc_announce_command(size, slot, filename)
build_dlc_announce_command(size, slot, name) ==
    <<80, 0, (size \div 65536) % 256, (size \div 256) % 256, size % 256, slot>>
        \o [i \in 1..12 |-> IF i <= Len(name) THEN name[i] ELSE 0]

\* dlc_path.name of the uploaded file: "TEST.DLC"
FileName == <<84, 69, 83, 84, 46, 68, 76, 67>>

\* furby.add_gp_callback(cb)
add_gp_callback(cbs, cb) == Append(cbs, cb)

\* lines 180-181: if cb in list: list.remove(cb)  (the first occurrence)
RECURSIVE remove_callback(_, _)
remove_callback(cbs, cb) ==
    IF cbs = <<>> THEN <<>>
    ELSE IF Head(cbs) = cb THEN Tail(cbs)
    ELSE <<Head(cbs)>> \o remove_callback(Tail(cbs), cb)

Subscribed == \E i \in 1..Len(gp_callbacks) : gp_callbacks[i] = Handler

(***************************************************************************)
(* Where the invocation stands with respect to its chunks, for the history *)
(* of handled frames.                                                      *)
(***************************************************************************)
Stage ==
    IF pc \in {"L114", "L117", "L121", "L132"} THEN "pre"
    ELSE IF pc = "L139" \/ (pc \in {"L146", "L153"} /\ offset < file_size) THEN "send"
    ELSE IF pc \in {"L146", "L153", "L160", "L164"} THEN "sent"
    ELSE "post"

(***************************************************************************)
(* The files uploaded: every size up to MaxFileSize, the 100-byte file of  *)
(* the tests, and two long files, of 50 full chunks and of 50 full chunks  *)
(* and a byte (the 50th chunk is where the progress callback is invoked    *)
(* inside the loop).  The files longer than MaxFileSize are uploaded with  *)
(* a progress callback, without link-layer ack and with timeout = 1.       *)
(***************************************************************************)
ExampleFile == 100

LongFile == PROGRESS_EVERY * FILE_CHUNK_SIZE

FileSizes == (0..MaxFileSize) \cup {ExampleFile, LongFile, LongFile + 1}

\* the files of the specification with fairness: none, one or two chunks, and the long file
ShortSizes == {0, 1, FILE_CHUNK_SIZE, FILE_CHUNK_SIZE + 1, LongFile}

\* the clock of a wait is not counted beyond this (both waits end by their bounds)
ClockCap == READY_TIMEOUT + (IF timeout > MaxTimeout THEN timeout ELSE MaxTimeout)

\* no encoder has been called, and parse_response has not
NoRequest == [op |-> "none", args |-> <<>>, name |-> <<>>]

NotDecoded == [status |-> "none", opcode |-> 0, payload |-> <<>>]

NotClassified == [status |-> "none", is_message |-> FALSE, kind |-> "None"]

\* an entry of the cache; None is "None" in the text fields and NoId in name_id
KnownFurby(address, device_name, name, name_id, firmware_revision, last_seen) ==
    [address |-> address, device_name |-> device_name, name |-> name, name_id |-> name_id,
     firmware_revision |-> firmware_revision, last_seen |-> last_seen]

NoId == 0 - 1

NoFurby == KnownFurby("None", "None", "None", NoId, "None", 0)

NoFields == [device_name |-> "None", name |-> "None", name_id |-> NoId,
             firmware_revision |-> "None"]

\* the invocations of upload_dlc that may overlap, and one that has not been made
Invocations == {"A", "B"}

\* the arguments of the tools, those a tool does not take at their defaults
NoArgs == [red |-> 0, green |-> 0, blue |-> 0, mood_type |-> [word |-> "", caps |-> "lower"],
           value |-> 0, enabled |-> FALSE, input_id |-> 0]

\* what a tool returns: the keys success, error (absent: "None") and message
NoResult == [success |-> FALSE, error |-> "None", message |-> ""]

\* no tool called yet.  state: "none", "awaiting" (suspended in the device operation op)
\* or "returned"; mood: the MoodMeterType passed to the device; failure: the exception
\* the device operation raised ("None": none); propagated: the exception that left the
\* tool ("None": the tool returned ret)
NoTool == [tool |-> "none", args |-> NoArgs, op |-> "none", mood |-> "none",
           state |-> "none", failure |-> "None", ret |-> NoResult, propagated |-> "None"]

NotCalled == [pc |-> "idle", size |-> 0, ack |-> FALSE, offset |-> 0, chunk_count |-> 0,
              woken |-> FALSE, result |-> "none", met |-> FALSE, cb |-> FALSE,
              entered |-> FALSE]

NoCall == [op |-> "none", address |-> "None", fields |-> NoFields, removed |-> FALSE,
           entry |-> NoFurby, listing |-> <<>>]

Init ==
    /\ transfer_ready = FALSE
    /\ transfer_complete = FALSE
    /\ transfer_error = "None"
    /\ progress_callback = FALSE
    /\ gp_callbacks = <<>>
    /\ gp_writes = <<>>
    /\ file_writes = <<>>
    /\ nordic_calls = <<>>
    /\ sink_calls = <<>>
    /\ pc = "idle"
    /\ file_size = 0
    /\ timeout = 1
    /\ enable_nordic_ack = TRUE
    /\ offset = 0
    /\ chunk_count = 0
    /\ elapsed = 0
    /\ result = "none"
    /\ seen = {}
    /\ trail = <<>>
    /\ frame = <<>>
    /\ raised = "None"
    /\ request = NoRequest
    /\ encoded = <<>>
    /\ decoded = NotDecoded
    /\ classified = NotClassified
    /\ furbies = <<>>
    /\ clock = 1
    /\ cache_ret = NoCall
    /\ calls = [i \in Invocations |-> NotCalled]
    /\ furby_connected = FALSE
    /\ tool_call = NoTool
    /\ flash_pc = "idle"
    /\ delete_first = TRUE
    /\ flash_cb = FALSE
    /\ path_exists = TRUE
    /\ flash_size = 0
    /\ flash_sink = <<>>
    /\ cause = "None"
    /\ failed_at = "none"
    /\ flash_result = "none"


(***************************************************************************)
(* Control flow between the awaits.  A position is the await the coroutine *)
(* reaches next, with the locals, the progress-callback log and the phase  *)
(* trail as they are on reaching it.                                       *)
(***************************************************************************)
Pos(p, off, cc, sinks, tr) ==
    [pc |-> p, offset |-> off, chunk_count |-> cc, sink_calls |-> sinks, trail |-> tr]

\* lines 158-166: after the loop, up to the confirm wait
AfterLoop(off, cc) ==
    IF progress_callback
    THEN Pos("L160", off, cc,
             Append(sink_calls, <<file_size, file_size, "Waiting for Furby to confirm...">>),
             trail \o <<"AwaitingConfirm">>)
    ELSE Pos("L164", off, cc, sink_calls, trail \o <<"AwaitingConfirm">>)

\* line 137: while offset < file_size
LoopTest(off, cc) ==
    IF off < file_size THEN Pos("L139", off, cc, sink_calls, trail) ELSE AfterLoop(off, cc)

\* mutant of AfterSleep: the progress update follows every chunk
AfterSleep_EveryChunk(off, cc) ==
    IF progress_callback
    THEN Pos("L153", off, cc, Append(sink_calls, <<off, file_size, "Uploading: %">>), trail)
    ELSE LoopTest(off, cc)

\* lines 149-156: the progress update after every 50th chunk
AfterSleep(off, cc) ==
    IF cc % PROGRESS_EVERY = 0 /\ progress_callback
    THEN Pos("L153", off, cc, Append(sink_calls, <<off, file_size, "Uploading: %">>), trail)
    ELSE LoopTest(off, cc)

\* lines 134-137: offset = 0, chunk_count = 0 and the first loop test
EnterLoop(tr) ==
    IF 0 < file_size THEN Pos("L139", 0, 0, sink_calls, tr)
    ELSE IF progress_callback
    THEN Pos("L160", 0, 0,
             Append(sink_calls, <<file_size, file_size, "Waiting for Furby to confirm...">>),
             tr \o <<"AwaitingConfirm">>)
    ELSE Pos("L164", 0, 0, sink_calls, tr \o <<"AwaitingConfirm">>)

\* lines 129-132: the ready wait has returned
AfterReady ==
    IF progress_callback
    THEN Pos("L132", 0, 0, Append(sink_calls, <<0, file_size, "Uploading data...">>),
             trail \o <<"Sending">>)
    ELSE EnterLoop(trail \o <<"Sending">>)

\* mutant of AfterAnnounce: the data is sent without waiting for the device to be ready
AfterAnnounce_NoReadyWait == AfterReady

\* lines 116-121: the announce has been written
AfterAnnounce ==
    IF progress_callback
    THEN Pos("L117", 0, 0,
             Append(sink_calls, <<0, file_size, "Waiting for Furby to accept upload...">>),
             trail)
    ELSE Pos("L121", 0, 0, sink_calls, trail \o <<"ReadyWaiting">>)

\* lines 174-176: the error check has passed
AfterConfirm ==
    Pos("L176", offset, chunk_count,
        Append(sink_calls, <<file_size, file_size, "Upload complete!">>), trail)

\* the coroutine goes on to the await of position p, inside the try block
Resume(p) ==
    /\ pc' = p.pc
    /\ elapsed' = IF p.pc = "L176" THEN elapsed ELSE 0
    /\ offset' = p.offset
    /\ chunk_count' = p.chunk_count
    /\ sink_calls' = p.sink_calls
    /\ trail' = p.trail
    /\ UNCHANGED <<result, gp_callbacks, progress_callback>>

\* mutant of Exit: the callback is removed after the try body, not in a finally block
Exit_CleanupOnSuccessOnly(res, tr) ==
    /\ gp_callbacks' = IF res = "ok" THEN remove_callback(gp_callbacks, Handler)
                                     ELSE gp_callbacks
    /\ progress_callback' = FALSE
    /\ pc' = "done"
    /\ result' = res
    /\ trail' = tr
    /\ UNCHANGED <<offset, chunk_count, sink_calls, elapsed>>

\* lines 178-182: the finally block, and the return or the propagating exception
Exit(res, tr) ==
    /\ gp_callbacks' = remove_callback(gp_callbacks, Handler)
    /\ progress_callback' = FALSE
    /\ pc' = "done"
    /\ result' = res
    /\ trail' = tr
    /\ UNCHANGED <<offset, chunk_count, sink_calls, elapsed>>

\* an exception raised inside the try block
Raise(msg) == Exit(msg, trail \o <<"Failed">>)

\* an exception raised before the try block (lines 83-109): no finally runs
RaiseEarly(msg) ==
    /\ pc' = "done"
    /\ result' = msg
    /\ trail' = trail \o <<"Failed">>
    /\ UNCHANGED <<latches, progress_callback, gp_callbacks, gp_writes, file_writes,
                   nordic_calls, sink_calls, inputs, offset, chunk_count, elapsed, seen>>

\* mutant of Subscribe: the latches and the recorded error are not reset
Subscribe_NoReset(tr) ==
    /\ UNCHANGED latches
    /\ gp_callbacks' = add_gp_callback(gp_callbacks, Handler)
    /\ seen' = {}
    /\ pc' = "L114"
    /\ trail' = tr \o <<"Announced">>

\* lines 103-114: reset the latches, subscribe, build the announce and write it
Subscribe(tr) ==
    /\ transfer_ready' = FALSE
    /\ transfer_complete' = FALSE
    /\ transfer_error' = "None"
    /\ gp_callbacks' = add_gp_callback(gp_callbacks, Handler)
    /\ seen' = {}
    /\ pc' = "L114"
    /\ trail' = tr \o <<"Announced">>

\* mutant of BeginProtocol: the link-layer ack is enabled whether or not it was asked for
BeginProtocol_AlwaysAck(ack, tr) ==
    /\ nordic_calls' = <<TRUE>>
    /\ pc' = "L101"
    /\ trail' = tr
    /\ seen' = {}
    /\ UNCHANGED <<latches, gp_callbacks>>

\* lines 99-114: from the link-ack option to the next await
BeginProtocol(ack, tr) ==
    IF ack
    THEN /\ nordic_calls' = <<TRUE>>
         /\ pc' = "L101"
         /\ trail' = tr
         /\ seen' = {}
         /\ UNCHANGED <<latches, gp_callbacks>>
    ELSE /\ nordic_calls' = <<>>
         /\ Subscribe(tr)

\* mutant of NotFound: the existence of the file is checked after the reset of the latches
NotFound_AfterReset ==
    /\ result' = ErrNotFound
    /\ pc' = "done"
    /\ trail' = <<"Idle", "Failed">>
    /\ sink_calls' = <<>>
    /\ nordic_calls' = <<>>
    /\ seen' = {}
    /\ transfer_ready' = FALSE
    /\ transfer_complete' = FALSE
    /\ transfer_error' = "None"
    /\ UNCHANGED <<progress_callback, gp_callbacks, inputs>>

\* lines 83-84: the file does not exist, FileNotFoundError is raised
NotFound ==
    /\ result' = ErrNotFound
    /\ pc' = "done"
    /\ trail' = <<"Idle", "Failed">>
    /\ sink_calls' = <<>>
    /\ nordic_calls' = <<>>
    /\ seen' = {}
    /\ UNCHANGED <<latches, progress_callback, gp_callbacks, inputs>>

(***************************************************************************)
(* upload_dlc(dlc_path, slot, timeout, enable_nordic_ack, progress_callback)*)
(* is called: lines 83-97.  exists is dlc_path.exists(), n the file's size, *)
(* t the timeout, ack enable_nordic_ack and cb whether a progress callback *)
(* is given.                                                               *)
(***************************************************************************)
enter_upload(exists, n, t, ack, cb) ==
    IF ~exists
    THEN NotFound
    ELSE /\ result' = "running"
         /\ progress_callback' = cb
         /\ file_size' = n
         /\ timeout' = t
         /\ enable_nordic_ack' = ack
         /\ IF cb
            THEN /\ sink_calls' = << <<0, n, "Starting upload">> >>
                 /\ pc' = "L97"
                 /\ trail' = <<"Idle">>
                 /\ nordic_calls' = <<>>
                 /\ seen' = {}
                 /\ UNCHANGED <<latches, gp_callbacks>>
            ELSE /\ sink_calls' = <<>>
                 /\ BeginProtocol(ack, <<"Idle">>)

\* a call of upload_dlc on its own, with a file of one of the sizes
upload_dlc(sizes) ==
    /\ pc = "idle"
    /\ UNCHANGED <<gp_writes, file_writes, offset, chunk_count, elapsed>>
    /\ \E exists \in BOOLEAN, n \in sizes, t \in 1..MaxTimeout,
          ack \in BOOLEAN, cb \in BOOLEAN :
          IF n > MaxFileSize /\ ~(exists /\ cb /\ ~ack /\ t = 1) THEN FALSE
          ELSE enter_upload(exists, n, t, ack, cb)

Call == upload_dlc(FileSizes) /\ UNCHANGED others

\* line 97: the first progress call returns, or raises
Ret97 ==
    /\ UNCHANGED others
    /\ pc = "L97"
    /\ \/ /\ BeginProtocol(enable_nordic_ack, trail)
          /\ UNCHANGED <<progress_callback, gp_writes, file_writes, sink_calls, inputs,
                         offset, chunk_count, elapsed, result>>
       \/ RaiseEarly(ErrSink)

\* line 101: enable_nordic_packet_ack(True) returns, or raises
Ret101 ==
    /\ UNCHANGED others
    /\ pc = "L101"
    /\ \/ /\ Subscribe(trail)
          /\ UNCHANGED <<progress_callback, gp_writes, file_writes, nordic_calls,
                         sink_calls, inputs, offset, chunk_count, elapsed, result>>
       \/ RaiseEarly(ErrWrite)

\* line 114: the announce write returns, or raises
Ret114 ==
    /\ UNCHANGED others
    /\ pc = "L114"
    /\ \/ /\ gp_writes' = Append(gp_writes,
                 build_dlc_announce_command(file_size, DEFAULT_SLOT, FileName))
          /\ Resume(AfterAnnounce)
       \/ /\ Raise(ErrWrite)
          /\ UNCHANGED gp_writes
    /\ UNCHANGED <<latches, file_writes, nordic_calls, inputs, seen>>

\* line 117: the progress call returns, or raises
Ret117 ==
    /\ UNCHANGED others
    /\ pc = "L117"
    /\ \/ Resume(Pos("L121", 0, 0, sink_calls, trail \o <<"ReadyWaiting">>))
       \/ Raise(ErrSink)
    /\ UNCHANGED <<latches, gp_writes, file_writes, nordic_calls, inputs, seen>>

\* mutant of ReadyWaitExpired: the ready wait is bounded by the timeout argument
ReadyWaitExpired_UsesTimeout(el) == el >= timeout

\* lines 120-127: asyncio.wait_for(self._transfer_ready.wait(), timeout=10.0)
ReadyWaitExpired(el) == el >= READY_TIMEOUT

\* mutant of Wait121: when the ready wait expires the data is sent all the same
Wait121_ProceedsOnExpiry ==
    /\ UNCHANGED others
    /\ pc = "L121"
    /\ \/ /\ transfer_ready
          /\ Resume(AfterReady)
       \/ /\ ~transfer_ready
          /\ ReadyWaitExpired(elapsed)
          /\ Resume(AfterReady)
    /\ UNCHANGED <<latches, gp_writes, file_writes, nordic_calls, inputs, seen>>

\* mutant of Wait121: once the bound has passed the wait fails, whatever the latch
Wait121_TimeoutWins ==
    /\ UNCHANGED others
    /\ pc = "L121"
    /\ \/ /\ transfer_ready
          /\ Resume(AfterReady)
       \/ /\ ReadyWaitExpired(elapsed)
          /\ Raise(ErrReady)
    /\ UNCHANGED <<latches, gp_writes, file_writes, nordic_calls, inputs, seen>>

\* mutant of Wait121: a recorded error ends the ready wait with the device's cause
Wait121_FailsOnError ==
    /\ UNCHANGED others
    /\ pc = "L121"
    /\ \/ /\ transfer_error # "None"
          /\ Raise(transfer_error)
       \/ /\ transfer_error = "None"
          /\ transfer_ready
          /\ Resume(AfterReady)
       \/ /\ transfer_error = "None"
          /\ ~transfer_ready
          /\ ReadyWaitExpired(elapsed)
          /\ Raise(ErrReady)
    /\ UNCHANGED <<latches, gp_writes, file_writes, nordic_calls, inputs, seen>>

Wait121 ==
    /\ UNCHANGED others
    /\ pc = "L121"
    /\ \/ /\ transfer_ready
          /\ Resume(AfterReady)
       \/ /\ ~transfer_ready
          /\ ReadyWaitExpired(elapsed)
          /\ Raise(ErrReady)
    /\ UNCHANGED <<latches, gp_writes, file_writes, nordic_calls, inputs, seen>>

\* line 132: the progress call returns, or raises
Ret132 ==
    /\ UNCHANGED others
    /\ pc = "L132"
    /\ \/ Resume(EnterLoop(trail))
       \/ Raise(ErrSink)
    /\ UNCHANGED <<latches, gp_writes, file_writes, nordic_calls, inputs, seen>>

\* lines 138-146: the chunk write returns, or raises
Ret139 ==
    /\ UNCHANGED others
    /\ pc = "L139"
    /\ \/ /\ file_writes' = Append(file_writes, Chunk(file_size, offset))
          /\ Resume(Pos("L146", NextOffset(offset, Chunk(file_size, offset)),
                        chunk_count + 1, sink_calls, trail))
       \/ /\ Raise(ErrWrite)
          /\ UNCHANGED file_writes
    /\ UNCHANGED <<latches, gp_writes, nordic_calls, inputs, seen>>

\* line 146: asyncio.sleep(0.002) returns
Ret146 ==
    /\ UNCHANGED others
    /\ pc = "L146"
    /\ Resume(AfterSleep(offset, chunk_count))
    /\ UNCHANGED <<latches, gp_writes, file_writes, nordic_calls, inputs, seen>>

\* line 153: the progress call returns, or raises
Ret153 ==
    /\ UNCHANGED others
    /\ pc = "L153"
    /\ \/ Resume(LoopTest(offset, chunk_count))
       \/ Raise(ErrSink)
    /\ UNCHANGED <<latches, gp_writes, file_writes, nordic_calls, inputs, seen>>

\* line 160: the progress call returns, or raises
Ret160 ==
    /\ UNCHANGED others
    /\ pc = "L160"
    /\ \/ Resume(Pos("L164", offset, chunk_count, sink_calls, trail))
       \/ Raise(ErrSink)
    /\ UNCHANGED <<latches, gp_writes, file_writes, nordic_calls, inputs, seen>>

\* mutant of ConfirmWaitExpired: the confirm wait has no timeout
ConfirmWaitExpired_Never(el, t) == FALSE

\* mutant of ConfirmWaitExpired: the confirm wait is bounded by the ready bound
ConfirmWaitExpired_UsesReadyBound(el, t) == el >= READY_TIMEOUT

\* lines 163-176: asyncio.wait_for(self._transfer_complete.wait(), timeout=timeout)
ConfirmWaitExpired(el, t) == el >= t

\* mutant of HasError: the recorded error is not looked at
HasError_Never(err) == FALSE

\* line 171: if self._transfer_error
HasError(err) == err # "None"

Wait164 ==
    /\ UNCHANGED others
    /\ pc = "L164"
    /\ \/ /\ transfer_complete
          /\ IF HasError(transfer_error)
             THEN Raise(transfer_error)
             ELSE IF progress_callback
                  THEN Resume(AfterConfirm)
                  ELSE Exit("ok", trail \o <<"Complete">>)
       \/ /\ ~transfer_complete
          /\ ConfirmWaitExpired(elapsed, timeout)
          /\ Raise(ErrConfirm)
    /\ UNCHANGED <<latches, gp_writes, file_writes, nordic_calls, inputs, seen>>

\* line 176: the last progress call returns, or raises
Ret176 ==
    /\ UNCHANGED others
    /\ pc = "L176"
    /\ \/ Exit("ok", trail \o <<"Complete">>)
       \/ Raise(ErrSink)
    /\ UNCHANGED <<latches, gp_writes, file_writes, nordic_calls, inputs, seen>>

(***************************************************************************)
(* One second passes while the coroutine is blocked in a wait.             *)
(***************************************************************************)
Tick ==
    /\ UNCHANGED others
    /\ \/ pc = "L121" /\ ~transfer_ready /\ ~ReadyWaitExpired(elapsed)
       \/ pc = "L164" /\ ~transfer_complete /\ ~ConfirmWaitExpired(elapsed, timeout)
    /\ elapsed < ClockCap
    /\ elapsed' = elapsed + 1
    /\ UNCHANGED <<latches, progress_callback, gp_callbacks, gp_writes, file_writes,
                   nordic_calls, sink_calls, pc, inputs, offset, chunk_count, result,
                   seen, trail>>

(***************************************************************************)
(* The transport delivers a frame to the subscribed handler.               *)
(***************************************************************************)
Notify ==
    /\ UNCHANGED others
    /\ Subscribed
    /\ \E data \in Frames :
          LET s == file_transfer_callback(data,
                       [ready |-> transfer_ready, complete |-> transfer_complete,
                        error |-> transfer_error])
          IN  /\ transfer_ready' = s.ready
              /\ transfer_complete' = s.complete
              /\ transfer_error' = s.error
              /\ IF IsStatusFrame(data)
                 THEN /\ <<data[2], Stage>> \in seen \/ Cardinality(seen) < MaxNotify
                      /\ seen' = seen \cup {<<data[2], Stage>>}
                 ELSE seen' = seen
    /\ UNCHANGED <<progress_callback, gp_callbacks, gp_writes, file_writes, nordic_calls,
                   sink_calls, pc, inputs, offset, chunk_count, elapsed, result, trail>>

(***************************************************************************)
(* The caller has the outcome of the call: the manager and the transport   *)
(* stay as the call left them, and what was recorded about the call is     *)
(* dropped before the next one.                                            *)
(***************************************************************************)
Return ==
    /\ UNCHANGED others
    /\ pc = "done"
    /\ pc' = "idle"
    /\ result' = "none"
    /\ gp_writes' = <<>>
    /\ file_writes' = <<>>
    /\ nordic_calls' = <<>>
    /\ sink_calls' = <<>>
    /\ file_size' = 0
    /\ timeout' = 1
    /\ enable_nordic_ack' = TRUE
    /\ offset' = 0
    /\ chunk_count' = 0
    /\ elapsed' = 0
    /\ seen' = {}
    /\ trail' = <<>>
    /\ UNCHANGED <<latches, progress_callback, gp_callbacks>>

Step ==
    \/ Ret97 \/ Ret101 \/ Ret114 \/ Ret117 \/ Wait121 \/ Ret132
    \/ Ret139 \/ Ret146 \/ Ret153 \/ Ret160 \/ Wait164 \/ Ret176

Next == Call \/ Step \/ Return \/ Tick \/ Notify

Spec == Init /\ [][Next]_vars


(***************************************************************************)
(* The same program with fairness, for termination: every await of a       *)
(* write, a progress call or a sleep completes, a wait whose latch is set  *)
(* or whose bound has passed resumes (Step), and time passes (Tick).  No   *)
(* notification is ever guaranteed to arrive.                              *)
(***************************************************************************)
CallShort == upload_dlc(ShortSizes) /\ UNCHANGED others

NextFair == CallShort \/ Step \/ Return \/ Tick \/ Notify

FairSpec == Init /\ [][NextFair]_vars /\ WF_vars(Step) /\ WF_vars(Tick)

(***************************************************************************)
(* FurbyProtocol: the commands of the DLC slots.                           *)
(***************************************************************************)
build_load_dlc_command(slot) == <<96, slot>>

build_activate_dlc_command == <<97>>

build_deactivate_dlc_command(slot) == <<98, slot>>

build_delete_dlc_command(slot) == <<116, slot>>

(***************************************************************************)
(* flash_and_activate(dlc_path, slot, delete_first, progress_callback):    *)
(* delete, upload, load and activate, each behind an optional progress     *)
(* call and followed by a settle delay, inside one try block whose except  *)
(* clause reports the failure to the progress callback and re-raises.      *)
(* flash_pc names the await the coroutine is suspended at by its line      *)
(* ("F252" is delete_dlc, "F259" upload_dlc, "F266" load_dlc and "F272"    *)
(* activate_dlc).  The upload runs with the default timeout and with       *)
(* link-layer ack.                                                         *)
(***************************************************************************)
DEFAULT_TIMEOUT == 300

ErrReport == "progress callback raised in the error report"

\* the files flashed; the long one only with a progress callback and without the delete
FlashSizes == {0, 1, FILE_CHUNK_SIZE + 1, LongFile}

\* what upload_dlc owns, but for the log of the command channel
upload_state == <<latches, progress_callback, gp_callbacks, file_writes, nordic_calls,
                  sink_calls, pc, inputs, offset, chunk_count, elapsed, result, seen, trail>>

\* flash_and_activate goes on to the await p, its progress log being sink
FlashGoto(p, sink) ==
    /\ flash_pc' = p
    /\ flash_sink' = sink
    /\ UNCHANGED <<flash_inputs, cause, failed_at, flash_result>>

\* line 283: the exception leaves flash_and_activate
FlashRaise(exc) ==
    /\ flash_pc' = "done"
    /\ flash_result' = exc
    /\ UNCHANGED <<flash_inputs, flash_sink, cause, failed_at>>

\* lines 279-283: the await of flash_pc has raised exc inside the try block
FlashFail(exc) ==
    /\ cause' = exc
    /\ failed_at' = flash_pc
    /\ UNCHANGED flash_inputs
    /\ IF flash_cb
       THEN /\ flash_pc' = "F282"
            /\ flash_sink' = Append(flash_sink, "Error")
            /\ UNCHANGED flash_result
       ELSE /\ flash_pc' = "done"
            /\ flash_result' = exc
            /\ UNCHANGED flash_sink

\* line 259: upload_dlc(dlc_path, slot, progress_callback=progress_callback) is called
FlashCallUpload(exists, n, cb) ==
    /\ pc = "idle"
    /\ enter_upload(exists, n, DEFAULT_TIMEOUT, TRUE, cb)
    /\ UNCHANGED <<gp_writes, file_writes, offset, chunk_count, elapsed>>

\* lines 256-259: step 2, up to its first await
FlashToUpload(cb, exists, n, sink) ==
    IF cb
    THEN /\ flash_pc' = "F258"
         /\ flash_sink' = Append(sink, "Starting DLC upload...")
         /\ UNCHANGED <<upload_state, gp_writes>>
    ELSE /\ flash_pc' = "F259"
         /\ flash_sink' = sink
         /\ FlashCallUpload(exists, n, cb)

\* a progress call of flash_and_activate returns (to the await p), or raises
FlashProgressRet(at, p) ==
    /\ flash_pc = at
    /\ \/ FlashGoto(p, flash_sink)
       \/ FlashFail(ErrSink)
    /\ UNCHANGED <<upload_state, gp_writes>>

\* a command write of flash_and_activate returns (and the settle delay p follows), or raises
FlashWriteRet(at, cmd, p) ==
    /\ flash_pc = at
    /\ \/ /\ gp_writes' = Append(gp_writes, cmd)
          /\ FlashGoto(p, flash_sink)
       \/ /\ FlashFail(ErrWrite)
          /\ UNCHANGED gp_writes
    /\ UNCHANGED upload_state

\* a settle delay is over: the next step starts with its progress call, if any
FlashSleepRet(at, msg, withcb, without) ==
    /\ flash_pc = at
    /\ IF flash_cb THEN FlashGoto(withcb, Append(flash_sink, msg))
                   ELSE FlashGoto(without, flash_sink)
    /\ UNCHANGED <<upload_state, gp_writes>>

\* flash_and_activate is called: lines 247-259, up to the first await
FlashCall ==
    /\ flash_pc = "idle"
    /\ pc = "idle"
    /\ \E df \in BOOLEAN, cb \in BOOLEAN, exists \in BOOLEAN, n \in FlashSizes :
          /\ n > MaxFileSize => (exists /\ cb /\ ~df)
          /\ delete_first' = df
          /\ flash_cb' = cb
          /\ path_exists' = exists
          /\ flash_size' = n
          /\ flash_result' = "running"
          /\ cause' = "None"
          /\ failed_at' = "none"
          /\ IF df
             THEN /\ IF cb THEN flash_pc' = "F251" /\ flash_sink' = <<"Deleting existing DLC">>
                           ELSE flash_pc' = "F252" /\ flash_sink' = <<>>
                  /\ UNCHANGED <<upload_state, gp_writes>>
             ELSE FlashToUpload(cb, exists, n, <<>>)
    /\ UNCHANGED <<handler_vars, protocol_vars, cache_vars, elsewhere>>

FRet251 == FlashProgressRet("F251", "F252") /\ UNCHANGED <<handler_vars, protocol_vars, cache_vars, elsewhere>>

FRet252 ==
    /\ FlashWriteRet("F252", build_delete_dlc_command(DEFAULT_SLOT), "F254")
    /\ UNCHANGED <<handler_vars, protocol_vars, cache_vars, elsewhere>>

\* line 254: the settle delay after the delete is over
FRet254 ==
    /\ flash_pc = "F254"
    /\ FlashToUpload(flash_cb, path_exists, flash_size, flash_sink)
    /\ UNCHANGED <<flash_inputs, cause, failed_at, flash_result, handler_vars, protocol_vars, cache_vars, elsewhere>>

\* line 258: the progress call returns and upload_dlc is called, or it raises
FRet258 ==
    /\ flash_pc = "F258"
    /\ \/ /\ FlashGoto("F259", flash_sink)
          /\ FlashCallUpload(path_exists, flash_size, flash_cb)
       \/ /\ FlashFail(ErrSink)
          /\ UNCHANGED <<upload_state, gp_writes>>
    /\ UNCHANGED <<handler_vars, protocol_vars, cache_vars, elsewhere>>

\* mutant of FRet259: the load step follows the upload whether or not it succeeded
FRet259_IgnoresFailure ==
    /\ flash_pc = "F259"
    /\ pc = "done"
    /\ FlashGoto("F261", flash_sink)
    /\ pc' = "idle"
    /\ result' = "none"
    /\ nordic_calls' = <<>>
    /\ sink_calls' = <<>>
    /\ file_size' = 0
    /\ timeout' = 1
    /\ enable_nordic_ack' = TRUE
    /\ offset' = 0
    /\ chunk_count' = 0
    /\ elapsed' = 0
    /\ seen' = {}
    /\ trail' = <<>>
    /\ UNCHANGED <<latches, progress_callback, gp_callbacks, gp_writes, file_writes,
                   handler_vars, protocol_vars, cache_vars, elsewhere>>

\* line 259: upload_dlc has returned, or raised
FRet259 ==
    /\ flash_pc = "F259"
    /\ pc = "done"
    /\ IF result = "ok" THEN FlashGoto("F261", flash_sink) ELSE FlashFail(result)
    /\ pc' = "idle"
    /\ result' = "none"
    /\ nordic_calls' = <<>>
    /\ sink_calls' = <<>>
    /\ file_size' = 0
    /\ timeout' = 1
    /\ enable_nordic_ack' = TRUE
    /\ offset' = 0
    /\ chunk_count' = 0
    /\ elapsed' = 0
    /\ seen' = {}
    /\ trail' = <<>>
    /\ UNCHANGED <<latches, progress_callback, gp_callbacks, gp_writes, file_writes,
                   handler_vars, protocol_vars, cache_vars, elsewhere>>

FRet261 ==
    /\ FlashSleepRet("F261", "Loading DLC", "F265", "F266")
    /\ UNCHANGED <<handler_vars, protocol_vars, cache_vars, elsewhere>>

FRet265 == FlashProgressRet("F265", "F266") /\ UNCHANGED <<handler_vars, protocol_vars, cache_vars, elsewhere>>

FRet266 ==
    /\ FlashWriteRet("F266", build_load_dlc_command(DEFAULT_SLOT), "F267")
    /\ UNCHANGED <<handler_vars, protocol_vars, cache_vars, elsewhere>>

FRet267 ==
    /\ FlashSleepRet("F267", "Activating DLC...", "F271", "F272")
    /\ UNCHANGED <<handler_vars, protocol_vars, cache_vars, elsewhere>>

FRet271 == FlashProgressRet("F271", "F272") /\ UNCHANGED <<handler_vars, protocol_vars, cache_vars, elsewhere>>

FRet272 ==
    /\ FlashWriteRet("F272", build_activate_dlc_command, "F273")
    /\ UNCHANGED <<handler_vars, protocol_vars, cache_vars, elsewhere>>

\* lines 273-277: the last settle delay is over
FRet273 ==
    /\ flash_pc = "F273"
    /\ IF flash_cb
       THEN FlashGoto("F277", Append(flash_sink, "DLC activated"))
       ELSE /\ flash_pc' = "done"
            /\ flash_result' = "ok"
            /\ UNCHANGED <<flash_inputs, flash_sink, cause, failed_at>>
    /\ UNCHANGED <<upload_state, gp_writes, handler_vars, protocol_vars, cache_vars, elsewhere>>

\* line 277: the last progress call returns, or raises
FRet277 ==
    /\ flash_pc = "F277"
    /\ \/ /\ flash_pc' = "done"
          /\ flash_result' = "ok"
          /\ UNCHANGED <<flash_inputs, flash_sink, cause, failed_at>>
       \/ FlashFail(ErrSink)
    /\ UNCHANGED <<upload_state, gp_writes, handler_vars, protocol_vars, cache_vars, elsewhere>>

\* lines 282-283: the error report returns and the exception caught is re-raised,
\* or the error report raises
FRet282 ==
    /\ flash_pc = "F282"
    /\ \/ FlashRaise(cause)
       \/ FlashRaise(ErrReport)
    /\ UNCHANGED <<upload_state, gp_writes, handler_vars, protocol_vars, cache_vars, elsewhere>>

\* the caller has the outcome of flash_and_activate
FlashReturn ==
    /\ flash_pc = "done"
    /\ flash_pc' = "idle"
    /\ flash_result' = "none"
    /\ flash_sink' = <<>>
    /\ cause' = "None"
    /\ failed_at' = "none"
    /\ delete_first' = TRUE
    /\ flash_cb' = FALSE
    /\ path_exists' = TRUE
    /\ flash_size' = 0
    /\ gp_writes' = <<>>
    /\ file_writes' = <<>>
    /\ UNCHANGED <<latches, progress_callback, gp_callbacks, nordic_calls, sink_calls, pc,
                   inputs, offset, chunk_count, elapsed, result, seen, trail,
                   handler_vars, protocol_vars, cache_vars, elsewhere>>

FlashStep ==
    \/ FRet251 \/ FRet252 \/ FRet254 \/ FRet258 \/ FRet259 \/ FRet261 \/ FRet265
    \/ FRet266 \/ FRet267 \/ FRet271 \/ FRet272 \/ FRet273 \/ FRet277 \/ FRet282

FlashNext == FlashCall \/ FlashStep \/ Step \/ Tick \/ Notify \/ FlashReturn

FlashSpec == Init /\ [][FlashNext]_vars

(***************************************************************************)
(* The handler alone: DLCManager._file_transfer_callback is invoked with   *)
(* one frame after another, on whatever the frames before have left in the *)
(* latches.  The frames are the empty frame and the frames of one, two and *)
(* three bytes over FirstBytes and SecondBytes.                            *)
(***************************************************************************)
MaxCode == 7

FirstBytes == {0, 35, 36, 37}

SecondBytes == (0..MaxCode) \cup {255}

TestFrames ==
    {<<>>} \cup { <<a>> : a \in FirstBytes }
           \cup { <<a, b>> : a \in FirstBytes, b \in SecondBytes }
           \cup { <<a, b, 0>> : a \in FirstBytes, b \in SecondBytes }

\* the members of the enumeration FileTransferMode that the handler compares with
FileTransferModes == HandledCodes

\* line 43: FileTransferMode(data[1]) raises ValueError for a value that is no member
ConversionError(code) == IF code \in FileTransferModes THEN "None" ELSE "ValueError"

\* lines 40-58: the exception that leaves the handler ("None": it returns)
callback_exception(data) ==
    IF Len(data) < 2 \/ data[1] # 36 THEN "None"
    ELSE IF ConversionError(data[2]) = "ValueError" THEN "None"   \* line 57: except ValueError
    ELSE "None"

Invoke ==
    /\ \E data \in TestFrames :
          LET s == file_transfer_callback(data,
                       [ready |-> transfer_ready, complete |-> transfer_complete,
                        error |-> transfer_error])
          IN  /\ transfer_ready' = s.ready
              /\ transfer_complete' = s.complete
              /\ transfer_error' = s.error
              /\ frame' = data
              /\ raised' = callback_exception(data)
    /\ UNCHANGED <<session, protocol_vars, flash_vars, cache_vars, elsewhere>>

HandlerSpec == Init /\ [][Invoke]_vars

(***************************************************************************)
(* FurbyProtocol: the other command encoders and parse_response.  A bool   *)
(* argument is 1 for True and 0 for False in the arguments of a request.   *)
(***************************************************************************)
build_antenna_command(r, g, b) == <<20, r, g, b>>

\* mutant of build_action_command: the zero byte after the opcode is missing
build_action_command_NoZeroByte(input, index, subindex, specific) ==
    <<19, input, index, subindex, specific>>

build_action_command(input, index, subindex, specific) ==
    <<19, 0, input, index, subindex, specific>>

build_lcd_command(on) == <<205, IF on THEN 1 ELSE 0>>

build_debug_menu_command == <<219>>

build_name_command(id) == <<33, id>>

build_moodmeter_command(action, type, value) == <<35, action, type, value>>

build_nordic_packet_ack(on) == <<9, IF on THEN 1 ELSE 0, 0>>

\* mutant of parse_response: an empty frame parses as command 0 with no payload
parse_response_EmptyIsOk(data) ==
    IF Len(data) = 0 THEN [status |-> "ok", opcode |-> 0, payload |-> <<>>]
    ELSE [status |-> "ok", opcode |-> data[1], payload |-> Tail(data)]

\* mutant of parse_response: the payload is the whole frame
parse_response_KeepsOpcode(data) ==
    IF Len(data) = 0 THEN [status |-> "ValueError", opcode |-> 0, payload |-> <<>>]
    ELSE [status |-> "ok", opcode |-> data[1], payload |-> data]

\* FurbyProtocol.parse_response(data): (data[0], data[1:]), ValueError for empty data
parse_response(data) ==
    IF Len(data) = 0 THEN [status |-> "ValueError", opcode |-> 0, payload |-> <<>>]
    ELSE [status |-> "ok", opcode |-> data[1], payload |-> Tail(data)]

\* the encoder of a request, applied to its arguments
Encode(req) ==
    LET a == req.args
    IN  CASE req.op = "antenna" -> build_antenna_command(a[1], a[2], a[3])
          [] req.op = "action" -> build_action_command(a[1], a[2], a[3], a[4])
          [] req.op = "lcd" -> build_lcd_command(a[1] = 1)
          [] req.op = "debug_menu" -> build_debug_menu_command
          [] req.op = "name" -> build_name_command(a[1])
          [] req.op = "moodmeter" -> build_moodmeter_command(a[1], a[2], a[3])
          [] req.op = "load_dlc" -> build_load_dlc_command(a[1])
          [] req.op = "activate_dlc" -> build_activate_dlc_command
          [] req.op = "deactivate_dlc" -> build_deactivate_dlc_command(a[1])
          [] req.op = "delete_dlc" -> build_delete_dlc_command(a[1])
          [] req.op = "nordic_packet_ack" -> build_nordic_packet_ack(a[1] = 1)
          [] req.op = "dlc_announce" -> build_dlc_announce_command(a[1], a[2], req.name)

(***************************************************************************)
(* FurbyProtocol: the classifier of device messages.  FurbyMessage is the  *)
(* enumeration of the event kinds, by their codes.                         *)
(***************************************************************************)
FurbyMessage ==
    (1 :> "ENTERED_NAMING_MODE") @@ (4 :> "ENTERED_APP_MODE") @@ (6 :> "RESPONSE_PLAYED")
        @@ (12 :> "SEQUENCE_PLAYING") @@ (14 :> "SEQUENCE_ENDED")

\* FurbyProtocol.is_furby_message(data)
is_furby_message(data) == Len(data) >= 1 /\ data[1] = 32

\* mutant of get_furby_message_type: the first byte of the frame is not looked at
get_furby_message_type_NoPrefixCheck(data) ==
    IF Len(data) < 2 THEN "None"
    ELSE IF data[2] \in DOMAIN FurbyMessage THEN FurbyMessage[data[2]]
    ELSE "None"

\* FurbyProtocol.get_furby_message_type(data): the event kind, or None
get_furby_message_type(data) ==
    IF ~is_furby_message(data) \/ Len(data) < 2 THEN "None"
    ELSE IF data[2] \in DOMAIN FurbyMessage THEN FurbyMessage[data[2]]
    ELSE "None"

\* the frames classified: like TestFrames, over these first and second bytes
MaxEvent == 15

MessageFrames ==
    LET first == {0, 32, 33, 35}
        second == (0..MaxEvent) \cup {255}
    IN  {<<>>} \cup { <<a>> : a \in first }
               \cup { <<a, b>> : a \in first, b \in second }
               \cup { <<a, b, 0>> : a \in first, b \in second }

(***************************************************************************)
(* The requests tried: every 8-bit value in each field of each command,    *)
(* the other fields being 0 or 255; the announce for sizes around the      *)
(* byte boundaries and beyond 24 bits and for names of up to MaxNameLen    *)
(* characters; and parse_response on frames that are no command.           *)
(***************************************************************************)
MaxNameLen == 14

Bytes == 0..255

Fields(k) ==
    IF k = 0 THEN {<<>>}
    ELSE { [base EXCEPT ![i] = v] : base \in [1..k -> {0, 255}], i \in 1..k, v \in Bytes }

\* "VERYLONGFILENAME.DLC", "TEST.DLC", "A.DLC" and "EXACTLY12CHR"
LongName == <<86, 69, 82, 89, 76, 79, 78, 71, 70, 73, 76, 69, 78, 65, 77, 69, 46, 68, 76, 67>>

ShortName == <<65, 46, 68, 76, 67>>

ExactName == <<69, 88, 65, 67, 84, 76, 89, 49, 50, 67, 72, 82>>

Names == { SubSeq(LongName, 1, k) : k \in 0..MaxNameLen }
             \cup {LongName, FileName, ShortName, ExactName}

AnnounceSizes == {0, 1, 255, 256, 1000, 12345, 65535, 65536, 16777215, 16777216, 16789561}

FixedOps ==
    [antenna |-> 3, action |-> 4, lcd |-> 1, debug_menu |-> 0, name |-> 1, moodmeter |-> 3,
     load_dlc |-> 1, activate_dlc |-> 0, deactivate_dlc |-> 1, delete_dlc |-> 1,
     nordic_packet_ack |-> 1]

BoolOps == {"lcd", "nordic_packet_ack"}

Requests ==
    UNION { { [op |-> o, args |-> a, name |-> <<>>] : a \in Fields(FixedOps[o]) } :
                o \in (DOMAIN FixedOps) \ BoolOps }
    \cup { [op |-> o, args |-> <<b>>, name |-> <<>>] : o \in BoolOps, b \in {0, 1} }
    \cup { [op |-> "dlc_announce", args |-> <<n, slot>>, name |-> nm] :
              n \in AnnounceSizes, slot \in {0, DEFAULT_SLOT, 255}, nm \in Names }
    \cup { [op |-> "parse_response", args |-> f, name |-> <<>>] : f \in TestFrames }
    \cup { [op |-> "classify", args |-> f, name |-> <<>>] : f \in MessageFrames }

ProtocolInit ==
    /\ transfer_ready = FALSE
    /\ transfer_complete = FALSE
    /\ transfer_error = "None"
    /\ progress_callback = FALSE
    /\ gp_callbacks = <<>>
    /\ gp_writes = <<>>
    /\ file_writes = <<>>
    /\ nordic_calls = <<>>
    /\ sink_calls = <<>>
    /\ pc = "idle"
    /\ file_size = 0
    /\ timeout = 1
    /\ enable_nordic_ack = TRUE
    /\ offset = 0
    /\ chunk_count = 0
    /\ elapsed = 0
    /\ result = "none"
    /\ seen = {}
    /\ trail = <<>>
    /\ frame = <<>>
    /\ raised = "None"
    /\ request \in Requests
    /\ encoded = <<>>
    /\ decoded = NotDecoded
    /\ classified = NotClassified
    /\ furbies = <<>>
    /\ clock = 1
    /\ cache_ret = NoCall
    /\ calls = [i \in Invocations |-> NotCalled]
    /\ furby_connected = FALSE
    /\ tool_call = NoTool
    /\ flash_pc = "idle"
    /\ delete_first = TRUE
    /\ flash_cb = FALSE
    /\ path_exists = TRUE
    /\ flash_size = 0
    /\ flash_sink = <<>>
    /\ cause = "None"
    /\ failed_at = "none"
    /\ flash_result = "none"

\* the encoder of the request is called
EncodeRequest ==
    /\ request.op \notin {"parse_response", "classify"}
    /\ encoded = <<>>
    /\ encoded' = Encode(request)
    /\ UNCHANGED <<latches, session, handler_vars, flash_vars, cache_vars, elsewhere, request, decoded, classified>>

\* parse_response is called with the encoded command
ParseEncoded ==
    /\ encoded # <<>>
    /\ decoded = NotDecoded
    /\ decoded' = parse_response(encoded)
    /\ UNCHANGED <<latches, session, handler_vars, flash_vars, cache_vars, elsewhere, request, encoded, classified>>

\* parse_response is called with the frame of the request
ParseFrame ==
    /\ request.op = "parse_response"
    /\ decoded = NotDecoded
    /\ decoded' = parse_response(request.args)
    /\ UNCHANGED <<latches, session, handler_vars, flash_vars, cache_vars, elsewhere, request, encoded, classified>>

\* is_furby_message and get_furby_message_type are called with the frame of the request
Classify ==
    /\ request.op = "classify"
    /\ classified = NotClassified
    /\ classified' = [status |-> "done", is_message |-> is_furby_message(request.args),
                      kind |-> get_furby_message_type(request.args)]
    /\ UNCHANGED <<latches, session, handler_vars, flash_vars, cache_vars, elsewhere, request, encoded, decoded>>

ProtocolNext == EncodeRequest \/ ParseEncoded \/ ParseFrame \/ Classify

ProtocolSpec == ProtocolInit /\ [][ProtocolNext]_vars

(***************************************************************************)
(* FurbyCache: the known devices, a dict keyed by address that keeps the   *)
(* order of insertion.  The dict is a sequence of entries; Keys, GetItem,  *)
(* SetItem and DelItem are the dict's own operations.                      *)
(***************************************************************************)
MaxClock == 2

Addresses == {"AA:BB:CC:DD:EE:FF", "11:22:33:44:55:66", "FF:EE:DD:CC:BB:AA"}

Keys(d) == { d[i].address : i \in DOMAIN d }

GetItem(d, k) ==
    IF k \in Keys(d) THEN d[CHOOSE i \in DOMAIN d : d[i].address = k] ELSE NoFurby

\* mutant of SetItem: the entry is added whether or not the key is present
SetItem_AlwaysAppend(d, k, v) == Append(d, v)

\* d[k] = v
SetItem(d, k, v) ==
    IF k \in Keys(d) THEN [i \in DOMAIN d |-> IF d[i].address = k THEN v ELSE d[i]]
    ELSE Append(d, v)

\* mutant of DelItem: the entries that follow the removed one go with it
DelItem_DropsTail(d, k) ==
    IF k \in Keys(d) THEN SubSeq(d, 1, (CHOOSE i \in DOMAIN d : d[i].address = k) - 1)
    ELSE d

\* del d[k]
DelItem(d, k) == SelectSeq(d, LAMBDA e : e.address # k)

\* the keyword arguments of add_or_update that the tests pass
FieldArgs ==
    { [NoFields EXCEPT !.device_name = "Furby"],
      [NoFields EXCEPT !.name = "Ah-Bay", !.name_id = 0],
      [NoFields EXCEPT !.firmware_revision = "1.2.3"] }

\* the keyword arguments with which the tests add a device that is not yet cached
NewArgs == { [NoFields EXCEPT !.device_name = "Furby"] }

\* the value a field takes: the one supplied, or the one it had
Supplied(new, old) == IF new = "None" THEN old ELSE new

\* FurbyCache.add_or_update(address, device_name, name, name_id, firmware_revision)
add_or_update(d, address, f, now) ==
    IF address \in Keys(d)
    THEN LET old == GetItem(d, address)
         IN  SetItem(d, address,
                 KnownFurby(address, Supplied(f.device_name, old.device_name),
                            Supplied(f.name, old.name),
                            IF f.name_id = NoId THEN old.name_id ELSE f.name_id,
                            Supplied(f.firmware_revision, old.firmware_revision), now))
    ELSE SetItem(d, address,
             KnownFurby(address, f.device_name, f.name, f.name_id, f.firmware_revision, now))

\* FurbyCache.update_name(address, name, name_id)
update_name(d, address, name, name_id) ==
    IF address \in Keys(d)
    THEN SetItem(d, address, [GetItem(d, address) EXCEPT !.name = name, !.name_id = name_id])
    ELSE d

\* FurbyCache.remove(address): the entries left, and the value returned
remove(d, address) ==
    IF address \in Keys(d) THEN [furbies |-> DelItem(d, address), removed |-> TRUE]
    ELSE [furbies |-> d, removed |-> FALSE]

\* sorted(..., key=last_seen, reverse=True): a stable sort, the most recent entry first
RECURSIVE SortedByLastSeen(_)
SortedByLastSeen(d) ==
    IF d = <<>> THEN <<>>
    ELSE LET rest == SortedByLastSeen(SubSeq(d, 1, Len(d) - 1))
             e == d[Len(d)]
             ahead == SelectSeq(rest, LAMBDA x : x.last_seen >= e.last_seen)
             behind == SelectSeq(rest, LAMBDA x : x.last_seen < e.last_seen)
         IN  ahead \o <<e>> \o behind

\* mutant of get_all: the entries in the order of insertion
get_all_Unsorted(d) == d

\* FurbyCache.get_all()
get_all(d) == SortedByLastSeen(d)

\* FurbyCache.get_most_recent()
get_most_recent(d) == IF d = <<>> THEN NoFurby ELSE get_all(d)[1]

\* time.time() at a call: the clock does not run backwards
Now == { t \in {clock, clock + 1} : t <= MaxClock }

AddOrUpdate ==
    \E a \in Addresses, f \in FieldArgs, t \in Now :
        /\ a \notin Keys(furbies) => f \in NewArgs
        /\ clock' = t
        /\ furbies' = add_or_update(furbies, a, f, t)
        /\ cache_ret' = [NoCall EXCEPT !.op = "add_or_update", !.address = a, !.fields = f,
                                       !.entry = GetItem(furbies', a)]
        /\ UNCHANGED <<latches, session, handler_vars, protocol_vars, flash_vars, elsewhere>>

UpdateName ==
    \E a \in Addresses :
        /\ furbies' = update_name(furbies, a, "Ah-Bay", 0)
        /\ cache_ret' = [NoCall EXCEPT !.op = "update_name", !.address = a]
        /\ UNCHANGED <<latches, session, handler_vars, protocol_vars, flash_vars, elsewhere, clock>>

Remove ==
    \E a \in Addresses :
        /\ furbies' = remove(furbies, a).furbies
        /\ cache_ret' = [NoCall EXCEPT !.op = "remove", !.address = a,
                                       !.removed = remove(furbies, a).removed]
        /\ UNCHANGED <<latches, session, handler_vars, protocol_vars, flash_vars, elsewhere, clock>>

Clear ==
    /\ furbies' = <<>>
    /\ cache_ret' = [NoCall EXCEPT !.op = "clear"]
    /\ UNCHANGED <<latches, session, handler_vars, protocol_vars, flash_vars, elsewhere, clock>>

GetAll ==
    /\ cache_ret' = [NoCall EXCEPT !.op = "get_all", !.listing = get_all(furbies)]
    /\ UNCHANGED <<latches, session, handler_vars, protocol_vars, flash_vars, elsewhere, furbies, clock>>

GetMostRecent ==
    /\ cache_ret' = [NoCall EXCEPT !.op = "get_most_recent",
                                   !.entry = get_most_recent(furbies)]
    /\ UNCHANGED <<latches, session, handler_vars, protocol_vars, flash_vars, elsewhere, furbies, clock>>

CacheNext == AddOrUpdate \/ UpdateName \/ Remove \/ Clear \/ GetAll \/ GetMostRecent

CacheSpec == Init /\ [][CacheNext]_vars

(***************************************************************************)
(* Two invocations of upload_dlc that overlap on one DLCManager.  They     *)
(* share the latches, the stored progress callback and the transport's     *)
(* callback list; offset and chunk_count are local to each.  woken tells   *)
(* that the event a waiting invocation waits on was set at its arrival or  *)
(* has been set since: asyncio.Event.wait() returns then, even when the    *)
(* event has been cleared in between.  The clocks of the waits are left    *)
(* out: a wait that has not been woken may reach its bound at any moment.  *)
(* met tells that the other invocation was running when this one began, or *)
(* began while this one was running; cb is the progress_callback argument  *)
(* of the invocation, which its own tests read (the stored copy is read by *)
(* nothing); entered tells that the invocation came to its try block.      *)
(***************************************************************************)
single == <<gp_writes, file_writes, nordic_calls, sink_calls, pc, inputs, offset,
            chunk_count, elapsed, result, seen, trail>>

apart == <<single, handler_vars, protocol_vars, flash_vars, cache_vars, mcp_vars>>

\* what the tool server leaves alone, the overlapping invocations apart
apart_mcp == <<latches, progress_callback, gp_callbacks, single, handler_vars, protocol_vars,
               flash_vars, cache_vars>>

\* the files of the overlapping invocations: none, one or two chunks; the long file for A only
OverlapSizes(i) == {0, FILE_CHUNK_SIZE + 1} \cup (IF i = "A" THEN {LongFile} ELSE {})

OGoto(i, r) == calls' = [calls EXCEPT ![i] = r]

InFlight(r) == r.pc \notin {"idle", "done"}

\* invocation i begins as r: the invocations in flight have met
OEnter(i, r) ==
    calls' = [j \in Invocations |->
                 IF j = i THEN [r EXCEPT !.met = \E k \in Invocations \ {i} : InFlight(calls[k])]
                 ELSE IF InFlight(calls[j]) THEN [calls[j] EXCEPT !.met = TRUE]
                 ELSE calls[j]]

\* lines 120-121: the ready wait begins
OAtReadyWait(r) == [r EXCEPT !.pc = "L121", !.woken = transfer_ready]

\* lines 163-164: the confirm wait begins
OAtConfirmWait(r) == [r EXCEPT !.pc = "L164", !.woken = transfer_complete]

\* lines 158-164
OAfterLoop(r) == IF r.cb THEN [r EXCEPT !.pc = "L160"] ELSE OAtConfirmWait(r)

\* line 137
OLoopTest(r) == IF r.offset < r.size THEN [r EXCEPT !.pc = "L139"] ELSE OAfterLoop(r)

\* lines 149-156
OAfterSleep(r) ==
    IF r.chunk_count % PROGRESS_EVERY = 0 /\ r.cb
    THEN [r EXCEPT !.pc = "L153"]
    ELSE OLoopTest(r)

\* lines 134-137
OEnterLoop(r) == OLoopTest([r EXCEPT !.offset = 0, !.chunk_count = 0])

\* lines 129-132
OAfterReady(r) == IF r.cb THEN [r EXCEPT !.pc = "L132"] ELSE OEnterLoop(r)

\* lines 116-121
OAfterAnnounce(r) == IF r.cb THEN [r EXCEPT !.pc = "L117"] ELSE OAtReadyWait(r)

\* mutant of OExit: the finally block removes every occurrence of the handler
OExit_RemovesAll(i, res) ==
    /\ gp_callbacks' = <<>>
    /\ progress_callback' = FALSE
    /\ OGoto(i, [calls[i] EXCEPT !.pc = "done", !.result = res])
    /\ UNCHANGED latches

\* lines 178-182: the finally block, and the return or the propagating exception
OExit(i, res) ==
    /\ gp_callbacks' = remove_callback(gp_callbacks, Handler)
    /\ progress_callback' = FALSE
    /\ OGoto(i, [calls[i] EXCEPT !.pc = "done", !.result = res])
    /\ UNCHANGED latches

\* an exception raised before the try block: no finally runs
ORaiseEarly(i, res) ==
    /\ OGoto(i, [calls[i] EXCEPT !.pc = "done", !.result = res])
    /\ UNCHANGED <<latches, gp_callbacks>>

\* the coroutine goes on inside the try block
OResume(i, r) == OGoto(i, r) /\ UNCHANGED <<latches, gp_callbacks, progress_callback>>

\* lines 103-114: reset the latches, subscribe, and begin the announce write
OSubscribe(i, r, entering) ==
    /\ transfer_ready' = FALSE
    /\ transfer_complete' = FALSE
    /\ transfer_error' = "None"
    /\ gp_callbacks' = add_gp_callback(gp_callbacks, Handler)
    /\ IF entering THEN OEnter(i, [r EXCEPT !.pc = "L114", !.entered = TRUE])
                   ELSE OGoto(i, [r EXCEPT !.pc = "L114", !.entered = TRUE])

\* lines 99-114
OBeginProtocol(i, r, entering) ==
    IF r.ack
    THEN /\ IF entering THEN OEnter(i, [r EXCEPT !.pc = "L101"])
                         ELSE OGoto(i, [r EXCEPT !.pc = "L101"])
         /\ UNCHANGED <<latches, gp_callbacks>>
    ELSE OSubscribe(i, r, entering)

\* upload_dlc is called while the other invocation may be running: lines 83-97
OCall(i) ==
    /\ calls[i].pc = "idle"
    /\ \E exists \in BOOLEAN, n \in OverlapSizes(i), ack \in BOOLEAN, cb \in BOOLEAN :
          /\ n > MaxFileSize => (exists /\ cb /\ ~ack)
          /\ IF ~exists
             THEN /\ OEnter(i, [calls[i] EXCEPT !.pc = "done", !.result = ErrNotFound])
                  /\ UNCHANGED <<latches, gp_callbacks, progress_callback>>
             ELSE LET r == [NotCalled EXCEPT !.size = n, !.ack = ack, !.cb = cb,
                                            !.result = "running"]
                  IN  /\ progress_callback' = cb
                      /\ IF cb THEN /\ OEnter(i, [r EXCEPT !.pc = "L97"])
                                    /\ UNCHANGED <<latches, gp_callbacks>>
                               ELSE OBeginProtocol(i, r, TRUE)
    /\ UNCHANGED apart

\* line 97: the first progress call returns, or raises
ORet97(i) ==
    /\ calls[i].pc = "L97"
    /\ \/ OBeginProtocol(i, calls[i], FALSE)
       \/ ORaiseEarly(i, ErrSink)
    /\ UNCHANGED <<progress_callback, apart>>

\* line 101: enable_nordic_packet_ack(True) returns, or raises
ORet101(i) ==
    /\ calls[i].pc = "L101"
    /\ \/ OSubscribe(i, calls[i], FALSE)
       \/ ORaiseEarly(i, ErrWrite)
    /\ UNCHANGED <<progress_callback, apart>>

\* line 114: the announce write returns, or raises
ORet114(i) ==
    /\ calls[i].pc = "L114"
    /\ \/ OResume(i, OAfterAnnounce(calls[i]))
       \/ OExit(i, ErrWrite)
    /\ UNCHANGED apart

\* line 117: the progress call returns, or raises
ORet117(i) ==
    /\ calls[i].pc = "L117"
    /\ \/ OResume(i, OAtReadyWait(calls[i]))
       \/ OExit(i, ErrSink)
    /\ UNCHANGED apart

\* lines 120-127: the ready wait returns, or times out
OWait121(i) ==
    /\ calls[i].pc = "L121"
    /\ \/ /\ calls[i].woken
          /\ OResume(i, OAfterReady(calls[i]))
       \/ /\ ~calls[i].woken
          /\ OExit(i, ErrReady)
    /\ UNCHANGED apart

\* line 132: the progress call returns, or raises
ORet132(i) ==
    /\ calls[i].pc = "L132"
    /\ \/ OResume(i, OEnterLoop(calls[i]))
       \/ OExit(i, ErrSink)
    /\ UNCHANGED apart

\* lines 138-146: the chunk write returns, or raises
ORet139(i) ==
    /\ calls[i].pc = "L139"
    /\ \/ LET r == calls[i]
          IN  OResume(i, [r EXCEPT !.pc = "L146",
                                   !.offset = NextOffset(r.offset, Chunk(r.size, r.offset)),
                                   !.chunk_count = r.chunk_count + 1])
       \/ OExit(i, ErrWrite)
    /\ UNCHANGED apart

\* line 146: asyncio.sleep(0.002) returns
ORet146(i) ==
    /\ calls[i].pc = "L146"
    /\ OResume(i, OAfterSleep(calls[i]))
    /\ UNCHANGED apart

\* line 153: the progress call returns, or raises
ORet153(i) ==
    /\ calls[i].pc = "L153"
    /\ \/ OResume(i, OLoopTest(calls[i]))
       \/ OExit(i, ErrSink)
    /\ UNCHANGED apart

\* line 160: the progress call returns, or raises
ORet160(i) ==
    /\ calls[i].pc = "L160"
    /\ \/ OResume(i, OAtConfirmWait(calls[i]))
       \/ OExit(i, ErrSink)
    /\ UNCHANGED apart

\* lines 163-176: the confirm wait returns, or times out
OWait164(i) ==
    /\ calls[i].pc = "L164"
    /\ \/ /\ calls[i].woken
          /\ IF HasError(transfer_error)
             THEN OExit(i, transfer_error)
             ELSE IF calls[i].cb
                  THEN OResume(i, [calls[i] EXCEPT !.pc = "L176"])
                  ELSE OExit(i, "ok")
       \/ /\ ~calls[i].woken
          /\ OExit(i, ErrConfirm)
    /\ UNCHANGED apart

\* line 176: the last progress call returns, or raises
ORet176(i) ==
    /\ calls[i].pc = "L176"
    /\ \/ OExit(i, "ok")
       \/ OExit(i, ErrSink)
    /\ UNCHANGED apart

\* the transport delivers a frame to the handler, which wakes the invocations that wait
\* on an event it sets
ONotify ==
    /\ Subscribed
    /\ \E data \in Frames :
          LET s == file_transfer_callback(data,
                       [ready |-> transfer_ready, complete |-> transfer_complete,
                        error |-> transfer_error])
          IN  /\ transfer_ready' = s.ready
              /\ transfer_complete' = s.complete
              /\ transfer_error' = s.error
              /\ calls' = [i \in Invocations |->
                              IF \/ calls[i].pc = "L121" /\ s.ready
                                 \/ calls[i].pc = "L164" /\ s.complete
                              THEN [calls[i] EXCEPT !.woken = TRUE]
                              ELSE calls[i]]
    /\ UNCHANGED <<gp_callbacks, progress_callback, apart>>

\* the caller of an invocation has its outcome
OReturn(i) ==
    /\ calls[i].pc = "done"
    /\ OGoto(i, NotCalled)
    /\ UNCHANGED <<latches, gp_callbacks, progress_callback, apart>>

OStep(i) ==
    \/ ORet97(i) \/ ORet101(i) \/ ORet114(i) \/ ORet117(i) \/ OWait121(i) \/ ORet132(i)
    \/ ORet139(i) \/ ORet146(i) \/ ORet153(i) \/ ORet160(i) \/ OWait164(i) \/ ORet176(i)

OverlapNext ==
    \/ \E i \in Invocations : OCall(i) \/ OStep(i) \/ OReturn(i)
    \/ ONotify

OverlapSpec == Init /\ [][OverlapNext]_vars

(***************************************************************************)
(* The tool server: the tools of mcp_server on the one global FurbyConnect.*)
(* A tool runs up to the device operation it awaits, and goes on when that *)
(* returns or raises; the tools are called one after the other.  A string  *)
(* is held as its lower-case form and its pattern of capitals.             *)
(***************************************************************************)
MIN_RGB == 0
MAX_RGB == 255
MIN_MOOD == 0
MAX_MOOD == 100

\* argument values on both sides of the limits
ColorValues == {MIN_RGB - 1, MIN_RGB, MAX_RGB, MAX_RGB + 1}
MoodValues == {MIN_MOOD - 1, MIN_MOOD, MAX_MOOD, MAX_MOOD + 1}
Words == {"excitedness", "displeasedness", "tiredness", "fullness", "wellness", "happiness"}
Capitals == {"lower", "upper", "title"}
MoodTypes == [word : Words, caps : Capitals]

\* the exceptions of the device operations, as their texts
DeviceFailures == {"Not connected to Furby", "Device not found"}

\* mutant of lower: the string as it is
lower_Identity(str) == str

\* str.lower()
lower(str) == [str EXCEPT !.caps = "lower"]

\* lines 283-289
mood_map ==
    [word |-> "excitedness", caps |-> "lower"] :> "EXCITEDNESS" @@
    [word |-> "displeasedness", caps |-> "lower"] :> "DISPLEASEDNESS" @@
    [word |-> "tiredness", caps |-> "lower"] :> "TIREDNESS" @@
    [word |-> "fullness", caps |-> "lower"] :> "FULLNESS" @@
    [word |-> "wellness", caps |-> "lower"] :> "WELLNESS"

\* dict.get: None when the key is absent
mood_map_get(key) == IF key \in DOMAIN mood_map THEN mood_map[key] ELSE "None"

\* a tool returns without a device operation
Returned(t, success, message) ==
    [t EXCEPT !.state = "returned",
              !.ret = [success |-> success, error |-> "None", message |-> message]]

\* a tool is suspended in a device operation
Awaiting(t, op) == [t EXCEPT !.state = "awaiting", !.op = op]

NotConnected(t) == Returned(t, FALSE, "Not connected to Furby. Use connect_furby first.")

Called(tool, args) == [NoTool EXCEPT !.tool = tool, !.args = args]

\* lines 43-56
discover_furbies == Awaiting(Called("discover_furbies", NoArgs), "discover")

\* mutant of connect_furby: connects whatever the connection is
connect_furby_Always(connected) == Awaiting(Called("connect_furby", NoArgs), "connect")

\* lines 89-102
connect_furby(connected) ==
    LET t == Called("connect_furby", NoArgs)
    IN  IF connected THEN Returned(t, TRUE, "Already connected to Furby")
        ELSE Awaiting(t, "connect")

\* lines 128-134
disconnect_furby(connected) ==
    LET t == Called("disconnect_furby", NoArgs)
    IN  IF ~connected THEN Returned(t, TRUE, "Not connected to any Furby")
        ELSE Awaiting(t, "disconnect")

\* lines 171-187
set_antenna_color(connected, red, green, blue) ==
    LET t == Called("set_antenna_color",
                    [NoArgs EXCEPT !.red = red, !.green = green, !.blue = blue])
    IN  IF ~connected THEN NotConnected(t)
        ELSE IF ~(\A v \in {red, green, blue} : MIN_RGB <= v /\ v <= MAX_RGB)
        THEN Returned(t, FALSE, "RGB values must be between 0 and 255")
        ELSE Awaiting(t, "set_antenna_color")

\* lines 224-233
trigger_action(connected, input_id) ==
    LET t == Called("trigger_action", [NoArgs EXCEPT !.input_id = input_id])
    IN  IF ~connected THEN NotConnected(t) ELSE Awaiting(t, "trigger_action")

\* lines 268-300
set_mood(connected, mood_type, value) ==
    LET t == Called("set_mood", [NoArgs EXCEPT !.mood_type = mood_type, !.value = value])
        mood_enum == mood_map_get(lower(mood_type))
    IN  IF ~connected THEN NotConnected(t)
        ELSE IF ~(MIN_MOOD <= value /\ value <= MAX_MOOD)
        THEN Returned(t, FALSE, "Mood value must be between 0 and 100")
        ELSE IF mood_enum = "None"
        THEN Returned(t, FALSE, "Invalid mood type. Must be one of: excitedness, displeasedness, tiredness, fullness, wellness")
        ELSE [Awaiting(t, "set_moodmeter") EXCEPT !.mood = mood_enum]

\* lines 322-331
set_lcd_backlight(connected, enabled) ==
    LET t == Called("set_lcd_backlight", [NoArgs EXCEPT !.enabled = enabled])
    IN  IF ~connected THEN NotConnected(t) ELSE Awaiting(t, "set_lcd")

\* mutant of cycle_debug_menu: no test of the connection
cycle_debug_menu_Unchecked(connected) ==
    Awaiting(Called("cycle_debug_menu", NoArgs), "cycle_debug_menu")

\* lines 354-363
cycle_debug_menu(connected) ==
    LET t == Called("cycle_debug_menu", NoArgs)
    IN  IF ~connected THEN NotConnected(t) ELSE Awaiting(t, "cycle_debug_menu")

\* the message of the success result of each tool
SuccessMessage ==
    [discover_furbies |-> "Found Furby device(s)",
     connect_furby |-> "Successfully connected to Furby",
     disconnect_furby |-> "Disconnected from Furby",
     set_antenna_color |-> "Antenna color set",
     trigger_action |-> "Triggered action",
     set_mood |-> "Set mood",
     set_lcd_backlight |-> "LCD backlight set",
     cycle_debug_menu |-> "Cycled debug menu"]

\* the message of the except clause of each tool
FailureMessage ==
    [discover_furbies |-> "Discovery failed. Ensure Bluetooth is enabled.",
     connect_furby |-> "Failed to connect to Furby. Try discovering devices first or check the address.",
     disconnect_furby |-> "Failed to disconnect",
     set_antenna_color |-> "Failed to set antenna color",
     trigger_action |-> "Failed to trigger action",
     set_mood |-> "Failed to set mood",
     set_lcd_backlight |-> "Failed to set LCD backlight",
     cycle_debug_menu |-> "Failed to cycle debug menu"]

\* mutant of Except: trigger_action has no except clause
Except_TriggerPropagates(t, e) ==
    IF t.tool = "trigger_action"
    THEN [t EXCEPT !.state = "returned", !.propagated = e]
    ELSE [t EXCEPT !.state = "returned",
                   !.ret = [success |-> FALSE, error |-> e, message |-> FailureMessage[t.tool]]]

\* the except clause of a tool: except Exception as e, with str(e) under the key error
Except(t, e) ==
    [t EXCEPT !.state = "returned",
              !.ret = [success |-> FALSE, error |-> e, message |-> FailureMessage[t.tool]]]

\* the device operation has returned: the success result of the tool
Success(t) ==
    [t EXCEPT !.state = "returned",
              !.ret = [success |-> TRUE, error |-> "None", message |-> SuccessMessage[t.tool]]]

\* no tool is suspended
ToolIdle == tool_call.state # "awaiting"

DiscoverFurbies ==
    /\ ToolIdle
    /\ tool_call' = discover_furbies
    /\ UNCHANGED <<furby_connected, overlap_vars, apart_mcp>>

ConnectFurby ==
    /\ ToolIdle
    /\ tool_call' = connect_furby(furby_connected)
    /\ UNCHANGED <<furby_connected, overlap_vars, apart_mcp>>

DisconnectFurby ==
    /\ ToolIdle
    /\ tool_call' = disconnect_furby(furby_connected)
    /\ UNCHANGED <<furby_connected, overlap_vars, apart_mcp>>

SetAntennaColor ==
    /\ ToolIdle
    /\ \E red, green, blue \in ColorValues :
          tool_call' = set_antenna_color(furby_connected, red, green, blue)
    /\ UNCHANGED <<furby_connected, overlap_vars, apart_mcp>>

TriggerAction ==
    /\ ToolIdle
    /\ \E input_id \in {55, 71} : tool_call' = trigger_action(furby_connected, input_id)
    /\ UNCHANGED <<furby_connected, overlap_vars, apart_mcp>>

SetMood ==
    /\ ToolIdle
    /\ \E mood_type \in MoodTypes, value \in MoodValues :
          tool_call' = set_mood(furby_connected, mood_type, value)
    /\ UNCHANGED <<furby_connected, overlap_vars, apart_mcp>>

SetLcdBacklight ==
    /\ ToolIdle
    /\ \E enabled \in BOOLEAN : tool_call' = set_lcd_backlight(furby_connected, enabled)
    /\ UNCHANGED <<furby_connected, overlap_vars, apart_mcp>>

CycleDebugMenu ==
    /\ ToolIdle
    /\ tool_call' = cycle_debug_menu(furby_connected)
    /\ UNCHANGED <<furby_connected, overlap_vars, apart_mcp>>

\* the device operation returns; connect and disconnect have changed the connection
OpReturns ==
    /\ tool_call.state = "awaiting"
    /\ tool_call' = Success(tool_call)
    /\ furby_connected' = CASE tool_call.op = "connect" -> TRUE
                            [] tool_call.op = "disconnect" -> FALSE
                            [] OTHER -> furby_connected
    /\ UNCHANGED <<overlap_vars, apart_mcp>>

\* the device operation raises; the connection is as it was, or lost
OpRaises ==
    /\ tool_call.state = "awaiting"
    /\ \E e \in DeviceFailures : tool_call' = Except([tool_call EXCEPT !.failure = e], e)
    /\ furby_connected' \in {furby_connected, FALSE}
    /\ UNCHANGED <<overlap_vars, apart_mcp>>

\* the link to the device is lost
LinkLost ==
    /\ furby_connected
    /\ furby_connected' = FALSE
    /\ UNCHANGED <<tool_call, overlap_vars, apart_mcp>>

McpNext ==
    \/ DiscoverFurbies \/ ConnectFurby \/ DisconnectFurby \/ SetAntennaColor
    \/ TriggerAction \/ SetMood \/ SetLcdBacklight \/ CycleDebugMenu
    \/ OpReturns \/ OpRaises \/ LinkLost

McpSpec == Init /\ [][McpNext]_vars

(***************************************************************************)
(* Helpers of the properties.                                              *)
(***************************************************************************)
InTrail(ph) == \E i \in 1..Len(trail) : trail[i] = ph

SeenAt(code, stages) == \E st \in stages : <<code, st>> \in seen

AllStages == {"pre", "send", "sent", "post"}

DeviceErrors == {ErrFailed, ErrTimeout}

(***************************************************************************)
(* C1: when a call of upload_dlc that subscribed its handler has returned  *)
(* or raised (success, either timeout, a device-reported error, or an      *)
(* exception of a transport write or of the progress callback), the        *)
(* handler is not in the transport's callback list.                        *)
(***************************************************************************)
C1_HandlerReleased == (pc = "done" /\ InTrail("Announced")) => ~Subscribed

\* a call that subscribed, wrote a chunk and ended by a write raising
C1_Witness ==
    /\ pc = "done"
    /\ InTrail("Announced")
    /\ result = ErrWrite
    /\ Len(file_writes) >= 1
    /\ ~Subscribed

(***************************************************************************)
(* C2: a call that entered the ready wait and handled no ReadyToReceive    *)
(* frame since the reset of the latches fails with the ready-timeout       *)
(* error, and it does so when READY_TIMEOUT seconds have passed in the     *)
(* wait, whatever the timeout argument is; the ready wait never lasts      *)
(* longer than READY_TIMEOUT.                                              *)
(***************************************************************************)
C2_ReadyTimeout ==
    /\ (pc = "done" /\ InTrail("ReadyWaiting") /\ ~SeenAt(READY_TO_RECEIVE, AllStages))
           => (result = ErrReady /\ elapsed = READY_TIMEOUT)
    /\ pc = "L121" => elapsed <= READY_TIMEOUT

\* the ready wait has expired in a call whose timeout argument is not the ready bound
C2_Witness ==
    /\ pc = "done"
    /\ result = ErrReady
    /\ timeout # READY_TIMEOUT
    /\ ~SeenAt(READY_TO_RECEIVE, AllStages)
    /\ SeenAt(FILE_RECEIVED_OK, {"pre"})


\* the concatenation of the chunks written
RECURSIVE Concat(_)
Concat(chunks) == IF chunks = <<>> THEN <<>> ELSE Head(chunks) \o Concat(Tail(chunks))

(***************************************************************************)
(* C3, as stated: a call that wrote chunks and in which a FileReceivedError *)
(* frame was handled after all of them had been sent fails with the        *)
(* recorded device-reported cause, and the handler is unsubscribed.        *)
(***************************************************************************)
C3_Original ==
    (pc = "done" /\ Len(file_writes) >= 1 /\ SeenAt(FILE_RECEIVED_ERROR, {"sent", "post"}))
        => (result \in DeviceErrors /\ result = transfer_error /\ ~Subscribed)

(***************************************************************************)
(* C3, amended: a call in which a FileReceivedError frame was handled      *)
(* after the last chunk was written and before the confirm wait returned   *)
(* fails with the recorded device-reported cause, unless a progress call   *)
(* made after the last chunk raised, whose exception then propagates; the  *)
(* handler is unsubscribed in both cases.                                  *)
(***************************************************************************)
C3_DeviceErrorPropagates ==
    (pc = "done" /\ SeenAt(FILE_RECEIVED_ERROR, {"sent"}))
        => /\ ~Subscribed
           /\ result # ErrSink => (result \in DeviceErrors /\ result = transfer_error)

\* the error frame arrived during the confirm wait and the call raised its cause
C3_Witness ==
    /\ pc = "done"
    /\ seen = {<<READY_TO_RECEIVE, "pre">>, <<FILE_RECEIVED_ERROR, "sent">>}
    /\ file_size > FILE_CHUNK_SIZE
    /\ elapsed >= 1
    /\ result = ErrFailed

(***************************************************************************)
(* C4, as stated: a call returns success only if every chunk was written,  *)
(* the complete latch is set, the confirm wait ended within its bound and  *)
(* no FileReceivedError or FileTransferTimeout frame was handled since the *)
(* reset of the latches.                                                   *)
(***************************************************************************)
C4_Original ==
    (pc = "done" /\ result = "ok")
        => /\ Concat(file_writes) = dlc_data(file_size)
           /\ transfer_complete
           /\ elapsed <= timeout
           /\ ~SeenAt(FILE_RECEIVED_ERROR, AllStages)
           /\ ~SeenAt(FILE_TRANSFER_TIMEOUT, AllStages)

(***************************************************************************)
(* C4, amended: once the error check after the confirm wait has passed,    *)
(* and so whenever a call returns success, every chunk was written, the    *)
(* complete latch is set, the confirm wait ended within its bound, and no  *)
(* FileReceivedError or FileTransferTimeout frame was handled between the  *)
(* reset of the latches and the return of the confirm wait; when the check *)
(* has just passed no error is recorded.                                   *)
(***************************************************************************)
C4_SuccessOnlyIfConfirmed ==
    (pc = "L176" \/ (pc = "done" /\ result = "ok"))
        => /\ Concat(file_writes) = dlc_data(file_size)
           /\ transfer_complete
           /\ elapsed <= timeout
           /\ ~SeenAt(FILE_RECEIVED_ERROR, {"pre", "send", "sent"})
           /\ ~SeenAt(FILE_TRANSFER_TIMEOUT, {"pre", "send", "sent"})
           /\ ~SeenAt(FILE_RECEIVED_ERROR, {"post"}) /\ ~SeenAt(FILE_TRANSFER_TIMEOUT, {"post"})
                  => transfer_error = "None"

\* a successful upload of three chunks, confirmed during the confirm wait
C4_Witness ==
    /\ pc = "done"
    /\ result = "ok"
    /\ Len(file_writes) = 3
    /\ elapsed >= 1
    /\ seen = {<<READY_TO_RECEIVE, "pre">>, <<FILE_RECEIVED_OK, "sent">>}

(***************************************************************************)
(* C5: a call that entered the confirm wait (all chunks sent, no progress  *)
(* call raising before the wait) and handled no FileReceivedOk,            *)
(* FileReceivedError or FileTransferTimeout frame since the reset fails    *)
(* with the confirm-timeout error, when timeout seconds have passed in the *)
(* wait; the confirm wait never lasts longer than timeout.                 *)
(***************************************************************************)
C5_ConfirmTimeout ==
    /\ ( /\ pc = "done"
         /\ InTrail("AwaitingConfirm")
         /\ result # ErrSink
         /\ ~SeenAt(FILE_RECEIVED_OK, AllStages)
         /\ ~SeenAt(FILE_RECEIVED_ERROR, AllStages)
         /\ ~SeenAt(FILE_TRANSFER_TIMEOUT, AllStages) )
           => (result = ErrConfirm /\ elapsed = timeout
               /\ Concat(file_writes) = dlc_data(file_size))
    /\ pc = "L164" => elapsed <= timeout

\* the confirm wait of a two-chunk upload has expired
C5_Witness ==
    /\ pc = "done"
    /\ result = ErrConfirm
    /\ Len(file_writes) = 2
    /\ seen = {<<READY_TO_RECEIVE, "pre">>}
    /\ elapsed = timeout
    /\ timeout # READY_TIMEOUT


(***************************************************************************)
(* C6: every call of upload_dlc terminates: whenever the coroutine is      *)
(* suspended at an await, it later returns or raises, for every pattern of *)
(* notifications, given that every awaited write, progress call and sleep  *)
(* completes and that time passes.                                         *)
(***************************************************************************)
Running == pc \notin {"idle", "done"}

C6_Terminates == Running ~> (pc = "done")

\* a call that handled no frame at all has ended
C6_Witness ==
    /\ pc = "done"
    /\ seen = {}
    /\ InTrail("ReadyWaiting")
    /\ elapsed = READY_TIMEOUT


(***************************************************************************)
(* C7: every chunk written has between 1 and FILE_CHUNK_SIZE bytes and     *)
(* every chunk but the last written has exactly FILE_CHUNK_SIZE; once the  *)
(* send phase of a file of n bytes is over, ceil(n / FILE_CHUNK_SIZE)      *)
(* chunks have been written and their lengths sum to n.                    *)
(***************************************************************************)
C7_Chunking ==
    /\ \A i \in 1..Len(file_writes) :
          /\ Len(file_writes[i]) >= 1
          /\ Len(file_writes[i]) <= FILE_CHUNK_SIZE
          /\ i < Len(file_writes) => Len(file_writes[i]) = FILE_CHUNK_SIZE
    /\ InTrail("AwaitingConfirm") =>
          /\ Len(file_writes) = (file_size + FILE_CHUNK_SIZE - 1) \div FILE_CHUNK_SIZE
          /\ Len(Concat(file_writes)) = file_size

\* the send phase of a file of two chunks and a byte is over
C7_Witness ==
    /\ InTrail("AwaitingConfirm")
    /\ file_size = 2 * FILE_CHUNK_SIZE + 1
    /\ Len(file_writes) = 3
    /\ Len(file_writes[3]) = 1

(***************************************************************************)
(* C8: the send offset is always between 0 and the file size, and it never *)
(* decreases during a call (it starts again from 0 with the next call).    *)
(***************************************************************************)
C8_OffsetMonotone ==
    /\ [](0 <= offset /\ offset <= file_size)
    /\ [][pc' # "idle" => offset' >= offset]_vars

\* the offset has advanced to the end of a file that ends in a short chunk
C8_Witness ==
    /\ pc = "L164"
    /\ offset = file_size
    /\ file_size = FILE_CHUNK_SIZE + 1

(***************************************************************************)
(* The session phases of section 3 of the specification, in their order.   *)
(***************************************************************************)
PhaseOrder == <<"Idle", "Announced", "ReadyWaiting", "Sending", "AwaitingConfirm", "Complete">>

IsPrefix(a, b) == Len(a) <= Len(b) /\ SubSeq(b, 1, Len(a)) = a

Last(a) == a[Len(a)]

Front(a) == SubSeq(a, 1, Len(a) - 1)

Terminal == trail # <<>> /\ Last(trail) \in {"Complete", "Failed"}

\* the phases occur in order without a gap, and Failed is entered from one of the phases froms
TrailInOrder(froms) ==
    \/ IsPrefix(trail, PhaseOrder)
    \/ /\ Last(trail) = "Failed"
       /\ Front(trail) # <<>>
       /\ IsPrefix(Front(trail), PhaseOrder)
       /\ Last(Front(trail)) \in froms

(***************************************************************************)
(* C9, as stated (the order of the phases, in a call whose file exists):   *)
(* the phases of a call occur in the order Idle, Announced, ReadyWaiting,  *)
(* Sending, AwaitingConfirm, Complete with no phase skipped, and Failed is *)
(* entered only from Announced, ReadyWaiting, Sending or AwaitingConfirm.  *)
(***************************************************************************)
C9_Original ==
    result # ErrNotFound
        => TrailInOrder({"Announced", "ReadyWaiting", "Sending", "AwaitingConfirm"})

(***************************************************************************)
(* C9, amended: the phases of a call occur in the order Idle, Announced,   *)
(* ReadyWaiting, Sending, AwaitingConfirm, Complete with no phase skipped  *)
(* and never backwards; Failed is entered only from Idle, Announced,       *)
(* ReadyWaiting, Sending or AwaitingConfirm; and once the session is       *)
(* Complete or Failed the call writes nothing more to the command channel  *)
(* or to the data channel.                                                 *)
(***************************************************************************)
C9_PhaseOrder ==
    /\ [](TrailInOrder({"Idle", "Announced", "ReadyWaiting", "Sending", "AwaitingConfirm"}))
    /\ [][(Terminal /\ pc' # "idle") => UNCHANGED <<gp_writes, file_writes>>]_vars
    /\ [][pc' # "idle" => IsPrefix(trail, trail')]_vars

\* a call that failed while sending, after one chunk
C9_Witness ==
    /\ pc = "done"
    /\ trail = <<"Idle", "Announced", "ReadyWaiting", "Sending", "Failed">>
    /\ Len(file_writes) = 1

(***************************************************************************)
(* C10: handling a ReadyToReceive frame sets the ready latch and leaves    *)
(* the complete latch and the recorded error as they were.                 *)
(***************************************************************************)
HandledNow(code) == pc' = pc /\ <<code, Stage>> \in seen' /\ <<code, Stage>> \notin seen

C10_ReadyToReceive ==
    [][HandledNow(READY_TO_RECEIVE)
          => (transfer_ready' /\ UNCHANGED <<transfer_complete, transfer_error>>)]_vars

\* a ReadyToReceive frame was handled after a FileReceivedError frame
C10_Witness ==
    /\ seen = {<<FILE_RECEIVED_ERROR, "pre">>, <<READY_TO_RECEIVE, "pre">>}
    /\ transfer_ready
    /\ transfer_complete
    /\ transfer_error = ErrFailed

(***************************************************************************)
(* The frame is the status notification of the given code.                 *)
(***************************************************************************)
IsFrame(f, code) == Len(f) >= 2 /\ f[1] = 36 /\ f[2] = code

(***************************************************************************)
(* C11, as stated: when the handler has just processed a FileReceivedOk    *)
(* frame, the complete latch is set and no error is recorded, whatever     *)
(* frames it processed before.                                             *)
(***************************************************************************)
C11_Original ==
    IsFrame(frame, FILE_RECEIVED_OK) => (transfer_complete /\ transfer_error = "None")

(***************************************************************************)
(* C11, amended: processing a FileReceivedOk frame sets the complete latch *)
(* and leaves the recorded error and the ready latch as they were: no      *)
(* error is recorded after it exactly when none was recorded before it.    *)
(***************************************************************************)
C11_ReceivedOk ==
    [][IsFrame(frame', FILE_RECEIVED_OK)
          => (transfer_complete' /\ UNCHANGED <<transfer_ready, transfer_error>>)]_vars

\* a FileReceivedOk frame was processed after a FileReceivedError frame
C11_Witness ==
    /\ IsFrame(frame, FILE_RECEIVED_OK)
    /\ transfer_complete
    /\ transfer_error = ErrFailed
    /\ ~transfer_ready

(***************************************************************************)
(* C12: handling a FileReceivedError or a FileTransferTimeout frame sets   *)
(* the complete latch and records the cause, "File transfer failed" for    *)
(* the first and "File transfer timeout" for the second, two different     *)
(* values; and in a confirm wait no more time passes once one of the two   *)
(* has been handled since the reset of the latches: the wait is unblocked. *)
(***************************************************************************)
C12_FailureFrames ==
    /\ ErrFailed # ErrTimeout
    /\ [][HandledNow(FILE_RECEIVED_ERROR)
            => (transfer_complete' /\ transfer_error' = ErrFailed
                /\ UNCHANGED transfer_ready)]_vars
    /\ [][HandledNow(FILE_TRANSFER_TIMEOUT)
            => (transfer_complete' /\ transfer_error' = ErrTimeout
                /\ UNCHANGED transfer_ready)]_vars
    /\ []((pc = "L164" /\ (SeenAt(FILE_RECEIVED_ERROR, AllStages)
                           \/ SeenAt(FILE_TRANSFER_TIMEOUT, AllStages)))
             => (transfer_complete /\ transfer_error \in DeviceErrors))
    /\ [][(pc = "L164" /\ pc' = "L164" /\ transfer_error # "None")
            => elapsed' = elapsed]_vars

\* a FileTransferTimeout frame has unblocked the confirm wait after a second of waiting
C12_Witness ==
    /\ pc = "L164"
    /\ seen = {<<READY_TO_RECEIVE, "pre">>, <<FILE_TRANSFER_TIMEOUT, "sent">>}
    /\ elapsed = 1
    /\ timeout > 1
    /\ transfer_complete
    /\ transfer_error = ErrTimeout

(***************************************************************************)
(* C13: a frame of fewer than two bytes, a frame whose first byte is not   *)
(* 0x24 and a frame whose second byte is none of the transfer-status codes *)
(* leave the ready latch, the complete latch and the recorded error as     *)
(* they were, and the handler returns without raising.                     *)
(***************************************************************************)
Ignored(f) == Len(f) < 2 \/ f[1] # 36 \/ f[2] \notin FileTransferModes

C13_IgnoredFrames ==
    /\ [](Ignored(frame) => raised = "None")
    /\ [][Ignored(frame') => UNCHANGED latches]_vars

\* a frame of another channel was processed after a FileTransferTimeout frame
C13_Witness ==
    /\ frame = <<35, READY_TO_RECEIVE>>
    /\ ~transfer_ready
    /\ transfer_complete
    /\ transfer_error = ErrTimeout
    /\ raised = "None"

(***************************************************************************)
(* C14: a call of upload_dlc for a file that does not exist raises the     *)
(* not-found error in its first step; it has then made no link-ack call,   *)
(* no command-channel write, no data-channel write and no progress call,   *)
(* and it leaves the callback list, the latches and the recorded error as  *)
(* they were.                                                              *)
(***************************************************************************)
C14_NotFound ==
    /\ []((pc = "done" /\ result = ErrNotFound)
            => /\ nordic_calls = <<>>
               /\ gp_writes = <<>>
               /\ file_writes = <<>>
               /\ sink_calls = <<>>
               /\ ~Subscribed
               /\ trail = <<"Idle", "Failed">>)
    /\ [][(result' = ErrNotFound /\ result # ErrNotFound)
            => (pc = "idle" /\ UNCHANGED <<latches, gp_callbacks>>)]_vars

\* the file of a second call does not exist; the first call left a recorded error
C14_Witness ==
    /\ pc = "done"
    /\ result = ErrNotFound
    /\ transfer_ready
    /\ transfer_complete
    /\ transfer_error = ErrFailed

(***************************************************************************)
(* The commands flash_and_activate writes, in their order.                 *)
(***************************************************************************)
FlashCommands ==
    (IF delete_first THEN <<build_delete_dlc_command(DEFAULT_SLOT)>> ELSE <<>>)
        \o << build_dlc_announce_command(flash_size, DEFAULT_SLOT, FileName),
              build_load_dlc_command(DEFAULT_SLOT), build_activate_dlc_command >>

Written(cmd) == \E i \in 1..Len(gp_writes) : gp_writes[i] = cmd

\* the steps of flash_and_activate: the awaits of delete_dlc, upload_dlc, load_dlc, activate_dlc
FlashSteps == {"F252", "F259", "F266", "F272"}

\* the step that failed first is followed by no command of a later step, and by no
\* command undoing an earlier one
C15_Aborts ==
    /\ IsPrefix(gp_writes, FlashCommands)
    /\ failed_at = "F252" => gp_writes = <<>>
    /\ failed_at = "F259" => /\ ~Written(build_load_dlc_command(DEFAULT_SLOT))
                             /\ ~Written(build_activate_dlc_command)
    /\ failed_at = "F266" => ~Written(build_activate_dlc_command)

(***************************************************************************)
(* C15: when a step of flash_and_activate (delete, upload, load, activate) *)
(* has failed, no command of a later step and no compensating command has  *)
(* been written, and the exception the caller receives is the one that     *)
(* step raised.                                                            *)
(***************************************************************************)
C15_FirstFailureSurfaces ==
    /\ flash_pc # "idle" => C15_Aborts
    /\ (flash_pc = "done" /\ failed_at \in FlashSteps) => flash_result = cause

(***************************************************************************)
(* The command table of the specification: the opcode of each command, and *)
(* the bytes of a fixed-layout command for the arguments a.                *)
(***************************************************************************)
Opcode ==
    [antenna |-> 20, action |-> 19, lcd |-> 205, debug_menu |-> 219, name |-> 33,
     moodmeter |-> 35, load_dlc |-> 96, activate_dlc |-> 97, deactivate_dlc |-> 98,
     delete_dlc |-> 116, nordic_packet_ack |-> 9, dlc_announce |-> 80]

Layout(op, a) ==
    CASE op = "action" -> <<19, 0>> \o a
      [] op = "nordic_packet_ack" -> <<9>> \o a \o <<0>>
      [] OTHER -> <<Opcode[op]>> \o a

CommandLength(op) ==
    CASE op = "action" -> 6
      [] op = "nordic_packet_ack" -> 3
      [] op = "dlc_announce" -> 18
      [] OTHER -> 1 + FixedOps[op]

Announced == request.op = "dlc_announce" /\ encoded # <<>>

(***************************************************************************)
(* C16: the announce command for (size, slot, name) has 18 bytes: 0x50,    *)
(* 0x00, the low 24 bits of size in big-endian order, the slot, and the    *)
(* 12 bytes of the name field; size 12345 and slot 2 give the header       *)
(* 50 00 00 30 39 02.                                                      *)
(***************************************************************************)
C16_AnnounceLayout ==
    Announced =>
        LET size == request.args[1]
            slot == request.args[2]
        IN  /\ Len(encoded) = 18
            /\ \A i \in 1..18 : encoded[i] \in Bytes
            /\ encoded[1] = 80
            /\ encoded[2] = 0
            /\ encoded[3] * 65536 + encoded[4] * 256 + encoded[5] = size % 16777216
            /\ encoded[6] = slot
            /\ (size = 12345 /\ slot = 2) => SubSeq(encoded, 1, 6) = <<80, 0, 0, 48, 57, 2>>

\* a size beyond 24 bits whose low 24 bits are 12345
C16_Witness ==
    /\ Announced
    /\ request.args = <<16789561, DEFAULT_SLOT>>
    /\ request.name = FileName
    /\ SubSeq(encoded, 1, 6) = <<80, 0, 0, 48, 57, 2>>

(***************************************************************************)
(* C17: the name field of the announce command, bytes 6..17, has exactly   *)
(* 12 bytes: the first 12 characters of a name longer than 12, a name of   *)
(* 12 characters as it is, and a shorter name followed by zero bytes.      *)
(***************************************************************************)
C17_NameField ==
    Announced =>
        /\ Len(encoded) = 18
        /\ LET nm == request.name
               field == SubSeq(encoded, 7, 18)
           IN  /\ Len(nm) > 12 => field = SubSeq(nm, 1, 12)
               /\ Len(nm) = 12 => field = nm
               /\ Len(nm) < 12 => /\ SubSeq(field, 1, Len(nm)) = nm
                                  /\ \A i \in (Len(nm) + 1)..12 : field[i] = 0
               /\ nm = ShortName => field = <<65, 46, 68, 76, 67, 0, 0, 0, 0, 0, 0, 0>>
               /\ nm = ExactName => field = ExactName
               /\ nm = LongName => field = <<86, 69, 82, 89, 76, 79, 78, 71, 70, 73, 76, 69>>

\* the 20 characters of "VERYLONGFILENAME.DLC" are cut after "VERYLONGFILE"
C17_Witness ==
    /\ Announced
    /\ request.name = LongName
    /\ Len(encoded) = 18
    /\ encoded[18] = 69

(***************************************************************************)
(* C18: every fixed-layout encoder returns the bytes of the command table  *)
(* for all 8-bit values of its fields, and the length of its command does  *)
(* not depend on them.                                                     *)
(***************************************************************************)
C18_FixedLayouts ==
    (request.op \in DOMAIN FixedOps /\ encoded # <<>>) =>
        /\ encoded = Layout(request.op, request.args)
        /\ Len(encoded) = CommandLength(request.op)
        /\ \A i \in 1..Len(encoded) : encoded[i] \in Bytes

\* the action command of the tests, with a field that is neither 0 nor 255
C18_Witness ==
    /\ request.op = "action"
    /\ request.args = <<255, 255, 14, 0>>
    /\ encoded = <<19, 0, 255, 255, 14, 0>>

(***************************************************************************)
(* C19: parse_response(frame) returns (frame[0], frame[1:]) for every      *)
(* frame of one byte or more, the payload of a frame of one byte being     *)
(* empty, and it raises the empty-frame error exactly for the empty frame. *)
(***************************************************************************)
Parsed == IF request.op = "parse_response" THEN request.args ELSE encoded

C19_ParseResponse ==
    decoded # NotDecoded =>
        /\ decoded.status = "ValueError" <=> Len(Parsed) = 0
        /\ decoded.status # "ValueError" =>
              /\ decoded.status = "ok"
              /\ decoded.opcode = Parsed[1]
              /\ decoded.payload = SubSeq(Parsed, 2, Len(Parsed))
              /\ Len(Parsed) = 1 => decoded.payload = <<>>

\* parse_response has raised for the empty frame
C19_Witness ==
    /\ request.op = "parse_response"
    /\ request.args = <<>>
    /\ decoded.status = "ValueError"

(***************************************************************************)
(* C20: parse_response applied to the bytes an encoder returned gives the  *)
(* opcode of the command and, as payload, the bytes that follow the opcode *)
(* in the encoded command.                                                 *)
(***************************************************************************)
C20_RoundTrip ==
    (request.op \in DOMAIN Opcode /\ decoded # NotDecoded) =>
        /\ decoded.status = "ok"
        /\ decoded.opcode = Opcode[request.op]
        /\ <<decoded.opcode>> \o decoded.payload = encoded
        /\ Len(decoded.payload) = CommandLength(request.op) - 1
        /\ request.op \in DOMAIN FixedOps =>
              decoded.payload = Tail(Layout(request.op, request.args))

\* the announce of a name of 12 characters, parsed
C20_Witness ==
    /\ request.op = "dlc_announce"
    /\ request.name = ExactName
    /\ decoded.status = "ok"
    /\ decoded.opcode = 80
    /\ SubSeq(decoded.payload, 6, 17) = ExactName

(***************************************************************************)
(* C21: the classifier of device messages returns an event kind only for a *)
(* frame of two bytes or more whose first byte is 0x20 and whose second    *)
(* byte is a mapped event code, and then the kind of that code; it returns *)
(* None for a first byte other than 0x20, for the frame [0x20] and for an  *)
(* unmapped second byte; is_furby_message is false for the empty frame and *)
(* for a first byte other than 0x20.                                       *)
(***************************************************************************)
C21_Classifier ==
    classified # NotClassified =>
        LET f == request.args
        IN  /\ classified.kind # "None"
                => (Len(f) >= 2 /\ f[1] = 32 /\ f[2] \in {1, 4, 6, 12, 14})
            /\ (Len(f) >= 2 /\ f[1] = 32 /\ f[2] = 1) => classified.kind = "ENTERED_NAMING_MODE"
            /\ (Len(f) >= 2 /\ f[1] = 32 /\ f[2] = 4) => classified.kind = "ENTERED_APP_MODE"
            /\ (Len(f) >= 2 /\ f[1] = 32 /\ f[2] = 6) => classified.kind = "RESPONSE_PLAYED"
            /\ (Len(f) >= 2 /\ f[1] = 32 /\ f[2] = 12) => classified.kind = "SEQUENCE_PLAYING"
            /\ (Len(f) >= 2 /\ f[1] = 32 /\ f[2] = 14) => classified.kind = "SEQUENCE_ENDED"
            /\ (Len(f) = 0 \/ f[1] # 32) => ~classified.is_message
            /\ f = <<32, 6>> => classified.is_message

\* a frame of another channel whose second byte is a mapped event code
C21_Witness ==
    /\ request.op = "classify"
    /\ request.args = <<33, 6>>
    /\ classified.status = "done"
    /\ classified.kind = "None"
    /\ ~classified.is_message

(***************************************************************************)
(* C22: the cache holds at most one entry per address after every call;    *)
(* add_or_update on an address that is present keeps the number of entries,*)
(* does not decrease the entry's last_seen and overwrites the fields that  *)
(* were supplied; update_name on an address that is absent changes nothing.*)
(***************************************************************************)
C22_KeyedByAddress ==
    [][ LET a == cache_ret'.address
            f == cache_ret'.fields
            old == GetItem(furbies, a)
            new == GetItem(furbies', a)
        IN  /\ \A i, j \in DOMAIN furbies' :
                   furbies'[i].address = furbies'[j].address => i = j
            /\ (cache_ret'.op = "add_or_update" /\ a \in Keys(furbies))
                   => /\ Len(furbies') = Len(furbies)
                      /\ new.last_seen >= old.last_seen
                      /\ f.device_name # "None" => new.device_name = f.device_name
                      /\ f.name # "None" => new.name = f.name
                      /\ f.name_id # NoId => new.name_id = f.name_id
                      /\ f.firmware_revision # "None"
                             => new.firmware_revision = f.firmware_revision
            /\ (cache_ret'.op = "update_name" /\ a \notin Keys(furbies))
                   => furbies' = furbies
      ]_vars

\* a cached device was given its name by a second add_or_update, beside another device
C22_Witness ==
    /\ cache_ret.op = "add_or_update"
    /\ cache_ret.fields.name = "Ah-Bay"
    /\ cache_ret.entry.device_name = "Furby"
    /\ cache_ret.entry.name = "Ah-Bay"
    /\ Len(furbies) = 2

(***************************************************************************)
(* C23: remove(address) returns True exactly when the address was present, *)
(* and then removes that entry and no other; it returns False and changes  *)
(* nothing when the address is absent; clear() leaves the cache empty.     *)
(***************************************************************************)
C23_RemoveAndClear ==
    [][ LET a == cache_ret'.address
        IN  /\ cache_ret'.op = "remove"
                   => /\ cache_ret'.removed = (a \in Keys(furbies))
                      /\ Keys(furbies') = Keys(furbies) \ {a}
                      /\ \A k \in Keys(furbies) \ {a} :
                             GetItem(furbies', k) = GetItem(furbies, k)
                      /\ a \notin Keys(furbies) => furbies' = furbies
            /\ cache_ret'.op = "clear" => Len(furbies') = 0
      ]_vars

\* the first of three cached devices was removed
C23_Witness ==
    /\ cache_ret.op = "remove"
    /\ cache_ret.removed
    /\ Len(furbies) = 2
    /\ cache_ret.address \notin Keys(furbies)

(***************************************************************************)
(* C24: get_all() returns every cached entry exactly once, the most        *)
(* recently seen first; get_most_recent() returns an entry whose last_seen *)
(* is the greatest, or nothing when the cache is empty.                    *)
(***************************************************************************)
C24_SortedListing ==
    /\ cache_ret.op = "get_all"
           => LET l == cache_ret.listing
              IN  /\ Len(l) = Len(furbies)
                  /\ \A i \in DOMAIN furbies :
                         Cardinality({ j \in DOMAIN l : l[j] = furbies[i] }) = 1
                  /\ \A i, j \in DOMAIN l : i < j => l[i].last_seen >= l[j].last_seen
    /\ cache_ret.op = "get_most_recent"
           => IF Len(furbies) = 0 THEN cache_ret.entry = NoFurby
              ELSE /\ \E i \in DOMAIN furbies : furbies[i] = cache_ret.entry
                   /\ \A i \in DOMAIN furbies :
                          cache_ret.entry.last_seen >= furbies[i].last_seen

\* three devices listed in another order than they were added
C24_Witness ==
    /\ cache_ret.op = "get_all"
    /\ Len(cache_ret.listing) = 3
    /\ cache_ret.listing[1].last_seen > cache_ret.listing[3].last_seen
    /\ cache_ret.listing # furbies

(***************************************************************************)
(* C25: in an upload no chunk is written to the data channel before the    *)
(* announce command has been written and the ready-latch has been set by a *)
(* ReadyToReceive of that invocation and seen set by the ready wait; when  *)
(* the ready wait expires no chunk is written.                             *)
(***************************************************************************)
C25_NoChunkBeforeReady ==
    /\ (pc # "idle" /\ file_writes # <<>>)
           => /\ Written(build_dlc_announce_command(file_size, DEFAULT_SLOT, FileName))
              /\ SeenAt(READY_TO_RECEIVE, {"pre"})
              /\ InTrail("ReadyWaiting")
              /\ InTrail("Sending")
    /\ result = ErrReady => file_writes = <<>>

\* the first chunk has just been written
C25_Witness ==
    /\ pc = "L146"
    /\ Len(file_writes) = 1
    /\ SeenAt(READY_TO_RECEIVE, {"pre"})

(***************************************************************************)
(* C26 as stated: a ReadyToReceive handled after the announce write has    *)
(* begun and before the ready wait expires makes the upload proceed to the *)
(* send phase.                                                             *)
(***************************************************************************)
C26_Original ==
    (pc = "done" /\ SeenAt(READY_TO_RECEIVE, {"pre"})) => InTrail("Sending")

(***************************************************************************)
(* C26: the handler is subscribed and the latches are reset when the       *)
(* announce write begins, so the ready-latch tells of a ReadyToReceive of  *)
(* this invocation only; a ReadyToReceive handled from then on, before the *)
(* ready wait expires, is never lost: the upload never fails with the      *)
(* ready timeout, and once it is at the ready wait it goes on to the send  *)
(* phase.  (The upload ends before the ready wait only when the announce   *)
(* write or the progress call that follows it raises.)                     *)
(***************************************************************************)
C26_ReadyNotLost ==
    /\ pc = "L114" => Subscribed
    /\ (Stage = "pre" /\ pc # "done" /\ pc # "idle" /\ transfer_ready)
           => SeenAt(READY_TO_RECEIVE, {"pre"})
    /\ (pc \in {"L114", "L117", "L121"} /\ SeenAt(READY_TO_RECEIVE, {"pre"}))
           => transfer_ready
    /\ SeenAt(READY_TO_RECEIVE, {"pre"}) => result # ErrReady
    /\ (pc = "done" /\ SeenAt(READY_TO_RECEIVE, {"pre"}))
           => \/ InTrail("Sending")
              \/ ~InTrail("ReadyWaiting") /\ result \in {ErrWrite, ErrSink}

\* a ReadyToReceive was handled while the announce write was in flight, and the upload
\* went on to the send phase
C26_Witness ==
    /\ pc = "L139"
    /\ seen = {<<READY_TO_RECEIVE, "pre">>}
    /\ elapsed = 0
    /\ ~progress_callback

\* a FileReceivedError or a FileTransferTimeout was handled while chunks remained to be sent
ErrorWhileSending ==
    SeenAt(FILE_RECEIVED_ERROR, {"send"}) \/ SeenAt(FILE_TRANSFER_TIMEOUT, {"send"})

(***************************************************************************)
(* C27: once a FileReceivedError or a FileTransferTimeout has been handled *)
(* in the send phase, no further chunk is written to the data channel (the *)
(* write of a chunk that was under way may complete, no other is begun),   *)
(* and the upload fails: with the cause the device reported, or with the   *)
(* exception of the write or progress call that was under way.             *)
(***************************************************************************)
C27_ErrorStopsSending ==
    [][ (ErrorWhileSending /\ pc \notin {"L139", "done"})
            => /\ pc' # "L139"
               /\ pc' = "done" => result' \in DeviceErrors \cup {ErrWrite, ErrSink}
      ]_vars

(***************************************************************************)
(* C28: flash_and_activate called with a content file that does not exist  *)
(* writes no command to the transport, whatever delete_first is.           *)
(***************************************************************************)
C28_NotFoundWritesNothing ==
    (flash_pc # "idle" /\ ~path_exists)
        => /\ gp_writes = <<>>
           /\ file_writes = <<>>
           /\ nordic_calls = <<>>

\* the chunks of a file of n bytes, in the order of the file
AllChunks(n) ==
    [i \in 1..((n + FILE_CHUNK_SIZE - 1) \div FILE_CHUNK_SIZE) |->
        SubSeq(dlc_data(n), (i - 1) * FILE_CHUNK_SIZE + 1, Min(i * FILE_CHUNK_SIZE, n))]

\* the commands of a flash up to the announce
UpToAnnounce ==
    (IF delete_first THEN <<build_delete_dlc_command(DEFAULT_SLOT)>> ELSE <<>>)
        \o <<build_dlc_announce_command(flash_size, DEFAULT_SLOT, FileName)>>

(***************************************************************************)
(* C29: flash_and_activate writes its commands one at a time in the order  *)
(* delete (if and only if delete_first), announce, load, activate, each at *)
(* most once; every chunk is written after the announce and before the     *)
(* load; the load is written only after upload_dlc has returned success,   *)
(* with every chunk written; and a flash that succeeds has written exactly *)
(* these commands and every chunk of the file, in the file's order.        *)
(***************************************************************************)
C29_FlashOrder ==
    [][ /\ (flash_pc' # "idle" /\ gp_writes' # gp_writes)
               => /\ Len(gp_writes') = Len(gp_writes) + 1
                  /\ IsPrefix(gp_writes, gp_writes')
                  /\ IsPrefix(gp_writes', FlashCommands)
        /\ (flash_pc' # "idle" /\ file_writes' # file_writes)
               => /\ gp_writes = UpToAnnounce
                  /\ gp_writes' = gp_writes
                  /\ Len(file_writes') = Len(file_writes) + 1
                  /\ IsPrefix(file_writes', AllChunks(flash_size))
        /\ (flash_pc' # "idle" /\ Len(gp_writes') > Len(UpToAnnounce)
                /\ Len(gp_writes) = Len(UpToAnnounce))
               => /\ file_writes = AllChunks(flash_size)
                  /\ pc = "idle"
                  /\ flash_pc = "F266"
                  /\ cause = "None"
        /\ (flash_pc' = "done" /\ flash_result' = "ok")
               => /\ gp_writes' = FlashCommands
                  /\ file_writes' = AllChunks(flash_size)
      ]_vars

\* a flash with the delete step has succeeded for a file of two chunks
C29_Witness ==
    /\ flash_pc = "done"
    /\ flash_result = "ok"
    /\ delete_first
    /\ Len(gp_writes) = 4
    /\ Len(file_writes) = 2

(***************************************************************************)
(* C30: when the link-layer ack is requested, upload_dlc issues the        *)
(* link-ack-enable operation once, with the value true, and awaits it with *)
(* the latches not yet reset, the handler not yet subscribed and no        *)
(* announce written; when it is not requested the operation is never       *)
(* issued during the upload.                                               *)
(***************************************************************************)
C30_LinkAck ==
    [][ /\ pc' = "L101"
               => /\ enable_nordic_ack'
                  /\ nordic_calls' = <<TRUE>>
                  /\ latches' = latches
                  /\ gp_callbacks' = gp_callbacks
                  /\ ~Subscribed'
                  /\ gp_writes' = <<>>
        /\ (enable_nordic_ack' /\ Subscribed' /\ ~Subscribed) => pc = "L101"
        /\ (pc' \notin {"idle", "done"} /\ enable_nordic_ack' /\ Subscribed')
               => nordic_calls' = <<TRUE>>
        /\ (pc' # "idle" /\ enable_nordic_ack' /\ gp_writes' # <<>>)
               => nordic_calls' = <<TRUE>>
        /\ (pc' # "idle" /\ ~enable_nordic_ack') => nordic_calls' = <<>>
      ]_vars

\* the announce is being written after the link-layer ack was enabled
C30_Witness ==
    /\ pc = "L114"
    /\ enable_nordic_ack
    /\ nordic_calls = <<TRUE>>
    /\ Subscribed
    /\ gp_writes = <<>>

\* the latches r, c and the error e are accounted for by the frames sn handled so far
FromFrames(sn, r, c, e) ==
    LET got(code) == \E st \in AllStages : <<code, st>> \in sn
    IN  /\ r => got(READY_TO_RECEIVE)
        /\ c => got(FILE_RECEIVED_OK) \/ got(FILE_RECEIVED_ERROR) \/ got(FILE_TRANSFER_TIMEOUT)
        /\ e = ErrFailed => got(FILE_RECEIVED_ERROR)
        /\ e = ErrTimeout => got(FILE_TRANSFER_TIMEOUT)
        /\ e \in {"None", ErrFailed, ErrTimeout}

(***************************************************************************)
(* C31: when an upload begins the write of its announce the ready-latch    *)
(* and the complete-latch are unset and no error is recorded, whatever an  *)
(* earlier upload left; from then on, while the upload runs, a latch that  *)
(* is set and an error that is recorded come from a notification handled   *)
(* in this upload, so that its outcome does not depend on an earlier one.  *)
(***************************************************************************)
C31_SessionsIndependent ==
    [][ /\ (pc' = "L114" /\ pc # "L114")
               => /\ ~transfer_ready'
                  /\ ~transfer_complete'
                  /\ transfer_error' = "None"
        /\ pc' \in {"L114", "L117", "L121", "L132", "L139", "L146", "L153", "L160",
                    "L164", "L176"}
               => FromFrames(seen', transfer_ready', transfer_complete', transfer_error')
        /\ (pc' = "done" /\ pc # "done" /\ result' \in DeviceErrors)
               => FromFrames(seen, transfer_ready, transfer_complete, transfer_error)
                  /\ transfer_error = result'
      ]_vars

\* an upload is under way, before its reset, with the failure of an earlier upload recorded
C31_Witness ==
    /\ pc = "L101"
    /\ transfer_complete
    /\ transfer_ready
    /\ transfer_error = ErrFailed

(***************************************************************************)
(* C32: at every point of an upload the chunks written so far, one after   *)
(* another, are the first bytes_sent (offset) bytes of the content, and    *)
(* once the send phase is over they are the whole content: no byte is      *)
(* duplicated, skipped or reordered.                                       *)
(***************************************************************************)
C32_ChunksAreContent ==
    pc # "idle"
        => LET written == Concat(file_writes)
               content == dlc_data(file_size)
           IN  /\ written = SubSeq(content, 1, offset)
               /\ InTrail("AwaitingConfirm") => written = content

\* the third and last chunk of a file has been written
C32_Witness ==
    /\ pc = "L146"
    /\ file_size = 2 * FILE_CHUNK_SIZE + 1
    /\ offset = file_size
    /\ Len(file_writes) = 3

\* the progress calls made inside the send loop, in their order
LoopCalls == SelectSeq(sink_calls, LAMBDA c : c[3] = "Uploading: %")

(***************************************************************************)
(* C33: in a call of upload_dlc with a progress sink, the sink is invoked  *)
(* inside the send loop after the chunks whose ordinal is a multiple of 50 *)
(* and after no other, with the offset reached; it is invoked with 0 bytes *)
(* at the start, after the announce and before sending, and with the total *)
(* after the last chunk; every invocation has 0 <= bytes_sent <= total,    *)
(* the values of bytes_sent never decrease, and on success the last        *)
(* invocation reports the total.                                           *)
(***************************************************************************)
C33_ProgressCalls ==
    (pc # "idle" /\ sink_calls # <<>>)
        => /\ \A i \in 1..Len(sink_calls) :
                  /\ 0 <= sink_calls[i][1]
                  /\ sink_calls[i][1] <= sink_calls[i][2]
                  /\ sink_calls[i][2] = file_size
                  /\ i > 1 => sink_calls[i - 1][1] <= sink_calls[i][1]
                  /\ sink_calls[i][3] \in {"Starting upload",
                                           "Waiting for Furby to accept upload...",
                                           "Uploading data..."}
                         => sink_calls[i][1] = 0
                  /\ sink_calls[i][3] \in {"Waiting for Furby to confirm...",
                                           "Upload complete!"}
                         => sink_calls[i][1] = file_size /\ offset = file_size
           /\ sink_calls[1][3] = "Starting upload"
           /\ Len(LoopCalls) = (IF pc = "L146" THEN chunk_count - 1 ELSE chunk_count)
                                   \div PROGRESS_EVERY
           /\ \A k \in 1..Len(LoopCalls) :
                  LoopCalls[k][1] = Min(k * PROGRESS_EVERY * FILE_CHUNK_SIZE, file_size)
           /\ InTrail("Sending") => \E i \in 1..Len(sink_calls) :
                                        sink_calls[i][3] = "Uploading data..."
           /\ InTrail("AwaitingConfirm")
                  => \E i \in 1..Len(sink_calls) :
                         sink_calls[i][3] = "Waiting for Furby to confirm..."
           /\ result = "ok" => Last(sink_calls) = <<file_size, file_size, "Upload complete!">>

\* the sink has been invoked after the 50th chunk of a file of 51 chunks
C33_Witness ==
    /\ pc = "L153"
    /\ chunk_count = PROGRESS_EVERY
    /\ file_size = LongFile + 1
    /\ Last(sink_calls) = <<LongFile, LongFile + 1, "Uploading: %">>

\* a FileReceivedError or a FileTransferTimeout was handled before any chunk was sent
ErrorBeforeSending ==
    SeenAt(FILE_RECEIVED_ERROR, {"pre"}) \/ SeenAt(FILE_TRANSFER_TIMEOUT, {"pre"})

(***************************************************************************)
(* C34 as stated: when a FileReceivedError or a FileTransferTimeout was    *)
(* handled before the ready wait was over, the upload fails with the ready *)
(* timeout if no ReadyToReceive followed, and otherwise sends every chunk  *)
(* and fails with the cause the device reported, without waiting.          *)
(***************************************************************************)
C34_Original ==
    (pc = "done" /\ ErrorBeforeSending /\ InTrail("ReadyWaiting"))
        => IF SeenAt(READY_TO_RECEIVE, {"pre"})
           THEN result \in DeviceErrors /\ offset = file_size /\ elapsed = 0
           ELSE result = ErrReady

(***************************************************************************)
(* C34: the ready wait ends only by the ready-latch or by its bound, and   *)
(* only a ReadyToReceive sets the ready-latch, so an error notification    *)
(* handled before the ready wait is over does not end it: without a        *)
(* ReadyToReceive the upload fails at the bound with the ready timeout;    *)
(* with one it goes on to send, never succeeds and never waits for a       *)
(* confirmation, and fails with the cause the device reported once every   *)
(* chunk is sent, unless a chunk write or a progress call raises first.    *)
(***************************************************************************)
C34_ErrorBeforeReady ==
    [][ /\ (pc = "L121" /\ pc' # "L121")
               => \/ transfer_ready /\ pc' \in {"L132", "L139", "L160", "L164"}
                  \/ /\ ~transfer_ready
                     /\ elapsed >= READY_TIMEOUT
                     /\ pc' = "done"
                     /\ result' = ErrReady
        /\ (pc = "L121" /\ transfer_ready' /\ ~transfer_ready)
               => <<READY_TO_RECEIVE, "pre">> \in seen'
        /\ (pc' = "done" /\ pc # "done" /\ ErrorBeforeSending)
               => /\ result' \in DeviceErrors \cup {ErrReady, ErrWrite, ErrSink}
                  /\ result' = ErrReady => ~SeenAt(READY_TO_RECEIVE, {"pre"})
                  /\ result' \in DeviceErrors
                         => /\ pc = "L164"
                            /\ offset = file_size
                            /\ elapsed = 0
                            /\ result' = transfer_error
                  /\ (InTrail("ReadyWaiting") /\ ~SeenAt(READY_TO_RECEIVE, {"pre"}))
                         => result' = ErrReady
      ]_vars

\* the ready wait has expired although the device had reported a failure during it
C34_Witness ==
    /\ pc = "done"
    /\ result = ErrReady
    /\ seen = {<<FILE_RECEIVED_ERROR, "pre">>}
    /\ transfer_complete
    /\ elapsed = READY_TIMEOUT

\* the invocation r is inside the try block of upload_dlc
InTry(r) ==
    r.pc \in {"L114", "L117", "L121", "L132", "L139", "L146", "L153", "L160", "L164", "L176"}

\* how far the invocation r has come: every step of its own takes it further
Measure(r) ==
    LET loop == 3 * r.chunk_count
    IN  CASE r.pc = "idle" -> 0
          [] r.pc = "L97" -> 1
          [] r.pc = "L101" -> 2
          [] r.pc = "L114" -> 3
          [] r.pc = "L117" -> 4
          [] r.pc = "L121" -> 5
          [] r.pc = "L132" -> 6
          [] r.pc = "L139" -> 7 + loop
          [] r.pc = "L146" -> 5 + loop
          [] r.pc = "L153" -> 6 + loop
          [] r.pc = "L160" -> 8 + loop
          [] r.pc = "L164" -> 9 + loop
          [] r.pc = "L176" -> 10 + loop
          [] r.pc = "done" -> 11 + 3 * (LongFile + FILE_CHUNK_SIZE)

\* what holds of two overlapping invocations: each has a step to take while it is in
\* flight and every step takes it further, so that it ends; the handler is subscribed
\* while an invocation is inside the try block, as many times as there are such
\* invocations, and not at all when both have returned
C35_HandlerSide ==
    /\ [](\A i \in Invocations : InFlight(calls[i]) => ENABLED OStep(i))
    /\ [][\A i \in Invocations :
              (calls'[i] # calls[i] /\ calls'[i].pc # "idle")
                  => \/ Measure(calls'[i]) > Measure(calls[i])
                     \/ calls'[i] = [calls[i] EXCEPT !.woken = TRUE]
                     \/ calls'[i] = [calls[i] EXCEPT !.met = TRUE]]_vars
    /\ [](Len(gp_callbacks) = Cardinality({ i \in Invocations : InTry(calls[i]) }))
    /\ [](\A i \in 1..Len(gp_callbacks) : gp_callbacks[i] = Handler)

\* both invocations have returned after running at the same time
BothReturned == \A i \in Invocations : calls[i].pc = "done" /\ calls[i].met

\* the invocation r raised at line 97 or line 101, before its try block
RaisedEarly(r) == r.pc = "done" /\ ~r.entered /\ r.result \in {ErrSink, ErrWrite}

ControlTools ==
    {"set_antenna_color", "trigger_action", "set_mood", "set_lcd_backlight", "cycle_debug_menu"}

\* this step is the call of the tool named tool
ToolCalled(tool) == ToolIdle /\ tool_call' # tool_call /\ tool_call'.tool = tool

\* the tool called in this step has returned success = false with no device operation
Refused ==
    /\ tool_call'.state = "returned"
    /\ ~tool_call'.ret.success
    /\ tool_call'.op = "none"
    /\ tool_call'.propagated = "None"

\* the tool called in this step is suspended in the device operation op
Performs(op) == tool_call'.state = "awaiting" /\ tool_call'.op = op

(***************************************************************************)
(* C36: a device-control tool called while the device is not connected     *)
(* returns success = false, performs no device operation and leaves the    *)
(* connection state as it was.                                             *)
(***************************************************************************)
C36_NotConnectedRefused ==
    [][\A tool \in ControlTools :
          (ToolCalled(tool) /\ ~furby_connected)
              => Refused /\ furby_connected' = furby_connected]_vars

\* set_mood with good arguments has been refused for want of a connection
C36_Witness ==
    /\ ~furby_connected
    /\ tool_call.tool = "set_mood"
    /\ tool_call.args.value = MAX_MOOD
    /\ tool_call.args.mood_type.word = "wellness"
    /\ tool_call.state = "returned"
    /\ tool_call.ret.message = "Not connected to Furby. Use connect_furby first."

\* the five mood meters, in any capitals
MoodNames == {"excitedness", "displeasedness", "tiredness", "fullness", "wellness"}

(***************************************************************************)
(* C37: while connected, set_antenna_color performs the device write       *)
(* exactly when red, green and blue are all in 0..255, and set_mood        *)
(* exactly when value is in 0..100 and mood_type is, whatever its          *)
(* capitals, one of the five mood meters; a rejected call returns          *)
(* success = false with no device operation.                               *)
(***************************************************************************)
C37_Validation ==
    [][/\ (ToolCalled("set_antenna_color") /\ furby_connected)
              => LET a == tool_call'.args
                     valid == \A v \in {a.red, a.green, a.blue} : v \in 0..255
                 IN  IF valid THEN Performs("set_antenna_color") ELSE Refused
       /\ (ToolCalled("set_mood") /\ furby_connected)
              => LET a == tool_call'.args
                     valid == a.value \in 0..100 /\ a.mood_type.word \in MoodNames
                 IN  IF valid THEN Performs("set_moodmeter") ELSE Refused]_vars

\* set_mood written in capitals has gone to the device
C37_Witness ==
    /\ tool_call.tool = "set_mood"
    /\ tool_call.args.mood_type = [word |-> "tiredness", caps |-> "upper"]
    /\ tool_call.state = "awaiting"
    /\ tool_call.op = "set_moodmeter"
    /\ tool_call.mood = "TIREDNESS"

(***************************************************************************)
(* C38: connect_furby called while connected returns success without a     *)
(* connect, disconnect_furby called while not connected returns success    *)
(* without a disconnect, so that a connect is issued only when the device  *)
(* is not connected and a disconnect only when it is.                      *)
(***************************************************************************)
C38_Idempotent ==
    [][/\ (ToolCalled("connect_furby") /\ furby_connected)
              => /\ tool_call'.state = "returned" /\ tool_call'.ret.success
                 /\ tool_call'.op = "none"
                 /\ furby_connected'
       /\ (ToolCalled("disconnect_furby") /\ ~furby_connected)
              => /\ tool_call'.state = "returned" /\ tool_call'.ret.success
                 /\ tool_call'.op = "none"
                 /\ ~furby_connected'
       /\ (ToolIdle /\ Performs("connect")) => ~furby_connected
       /\ (ToolIdle /\ Performs("disconnect")) => furby_connected]_vars

\* connect_furby has been called on a connected device
C38_Witness ==
    /\ furby_connected
    /\ tool_call.tool = "connect_furby"
    /\ tool_call.state = "returned"
    /\ tool_call.ret.message = "Already connected to Furby"

(***************************************************************************)
(* C39: when the device operation of a tool raises, the exception does not *)
(* leave the tool: the tool returns success = false with the text of the   *)
(* failure under the key error.                                            *)
(***************************************************************************)
C39_FailureReturned ==
    tool_call.failure # "None"
        => /\ tool_call.propagated = "None"
           /\ tool_call.state = "returned"
           /\ ~tool_call.ret.success
           /\ tool_call.ret.error = tool_call.failure

\* the device operation of trigger_action has raised
C39_Witness ==
    /\ tool_call.tool = "trigger_action"
    /\ tool_call.failure = "Device not found"
    /\ tool_call.state = "returned"

====
